---- MODULE Spec2Model ----
(***************************************************************************)
(* CMP client core (mpeylo/cmpossl): context, header construction,         *)
(* received-message check, protection validation with sender-certificate  *)
(* discovery, and the enrollment session driver.                           *)
(***************************************************************************)
EXTENDS Integers, Sequences, FiniteSets, TLC

(***************************************************************************)
(* Bounds of the model                                                     *)
(***************************************************************************)
\* octet-string values (transaction IDs, nonces) are 1..MaxOctet
MaxOctet == 2
\* number of pollReq round trips modelled per session
MaxPolls == 2
\* the clock runs from 0 to MaxTime seconds
MaxTime == 9
\* the total timeout, in seconds, of the contexts that set one
TotalTimeout == 8
\* the timeout per message round trip, in seconds, of the contexts that set
\* a short one
ShortMsgTimeout == 2
\* the number of certificates pushed to the extraCertsOut of a context
MaxExtraCertsOut == 1

(***************************************************************************)
(* Program constants                                                       *)
(***************************************************************************)
\* absent octet string or integer field
NULL == 0
\* absent certificate, key, name or secret
NIL == "nil"

OSSL_CMP_PVNO == 2

OSSL_CMP_PKIBODY_IR == 0
OSSL_CMP_PKIBODY_IP == 1
OSSL_CMP_PKIBODY_CR == 2
OSSL_CMP_PKIBODY_CP == 3
OSSL_CMP_PKIBODY_P10CR == 4
OSSL_CMP_PKIBODY_KUR == 7
OSSL_CMP_PKIBODY_KUP == 8
OSSL_CMP_PKIBODY_RR == 11
OSSL_CMP_PKIBODY_RP == 12
OSSL_CMP_PKIBODY_CCP == 14
OSSL_CMP_PKIBODY_PKICONF == 19
OSSL_CMP_PKIBODY_GENM == 21
OSSL_CMP_PKIBODY_GENP == 22
OSSL_CMP_PKIBODY_ERROR == 23
OSSL_CMP_PKIBODY_CERTCONF == 24
OSSL_CMP_PKIBODY_POLLREQ == 25
OSSL_CMP_PKIBODY_POLLREP == 26

OSSL_CMP_PKISTATUS_accepted == 0
OSSL_CMP_PKISTATUS_grantedWithMods == 1
OSSL_CMP_PKISTATUS_rejection == 2
OSSL_CMP_PKISTATUS_waiting == 3
OSSL_CMP_PKISTATUS_revocationWarning == 4
OSSL_CMP_PKISTATUS_revocationNotification == 5
OSSL_CMP_PKISTATUS_keyUpdateWarning == 6

OSSL_CMP_CERTREQID == 0
OSSL_CMP_REVREQSID == 0

\* 1 << OSSL_CMP_PKIFAILUREINFO_incorrectData, kept symbolic as one bit
incorrectData == 1

Octets == 1..MaxOctet

(***************************************************************************)
(* X.509 material.  A certificate is known by an identifier; Cert gives    *)
(* the attributes the code reads from it.                                  *)
(*   subject, issuer : distinguished names                                 *)
(*   key             : the key pair certified (public key)                 *)
(*   sigkey          : the key pair that signed the certificate            *)
(*   skid            : SubjectKeyIdentifier, NULL when absent              *)
(*   ku              : KeyUsage: "absent", "ds" (has digitalSignature),    *)
(*                     "nods" (present without digitalSignature)           *)
(*   expired         : outside its validity period                         *)
(***************************************************************************)
CertIds ==
  {"R", "S1", "S2", "SK", "X", "SX", "E", "N1", "N2", "N3", "I", "C1"}

Cert ==
  [c \in CertIds |->
     CASE c = "R"  -> [subject |-> "CA",  issuer |-> "CA",  key |-> "kR",
                       sigkey |-> "kR",  skid |-> NULL, ku |-> "absent", expired |-> FALSE]
       [] c = "S1" -> [subject |-> "srv", issuer |-> "CA",  key |-> "kS1",
                       sigkey |-> "kR",  skid |-> 1,    ku |-> "ds",     expired |-> FALSE]
       [] c = "S2" -> [subject |-> "srv", issuer |-> "CA",  key |-> "kS2",
                       sigkey |-> "kR",  skid |-> 2,    ku |-> "absent", expired |-> FALSE]
       [] c = "SK" -> [subject |-> "srv", issuer |-> "CA",  key |-> "kSK",
                       sigkey |-> "kR",  skid |-> NULL, ku |-> "nods",   expired |-> FALSE]
       [] c = "X"  -> [subject |-> "XCA", issuer |-> "XCA", key |-> "kX",
                       sigkey |-> "kX",  skid |-> NULL, ku |-> "absent", expired |-> FALSE]
       [] c = "SX" -> [subject |-> "srv", issuer |-> "XCA", key |-> "kSX",
                       sigkey |-> "kX",  skid |-> NULL, ku |-> "ds",     expired |-> FALSE]
       [] c = "E"  -> [subject |-> "eve", issuer |-> "CA",  key |-> "kE",
                       sigkey |-> "kR",  skid |-> NULL, ku |-> "ds",     expired |-> FALSE]
       [] c = "N1" -> [subject |-> "ee",  issuer |-> "CA",  key |-> "kNew",
                       sigkey |-> "kR",  skid |-> NULL, ku |-> "ds",     expired |-> FALSE]
       [] c = "N2" -> [subject |-> "ee",  issuer |-> "XCA", key |-> "kNew",
                       sigkey |-> "kX",  skid |-> NULL, ku |-> "ds",     expired |-> FALSE]
       [] c = "N3" -> [subject |-> "ee",  issuer |-> "CA",  key |-> "kOld",
                       sigkey |-> "kR",  skid |-> NULL, ku |-> "ds",     expired |-> FALSE]
       [] c = "I"  -> [subject |-> "ICA", issuer |-> "CA",  key |-> "kI",
                       sigkey |-> "kR",  skid |-> NULL, ku |-> "absent", expired |-> FALSE]
       [] c = "C1" -> [subject |-> "ee",  issuer |-> "ICA", key |-> "kOld",
                       sigkey |-> "kI",  skid |-> 1,    ku |-> "ds",     expired |-> FALSE]]

\* X509_check_issued(issuer, subject) == X509_V_OK
X509_check_issued(d, c) ==
  Cert[d].subject = Cert[c].issuer /\ Cert[c].sigkey = Cert[d].key

\* X509_check_private_key(cert, pkey): pkey is the name of a key pair or NULL
X509_check_private_key(c, pkey) ==
  pkey # NIL /\ Cert[c].key = pkey

\* elements of a sequence
Range(s) == {s[i] : i \in 1..Len(s)}

\* ASN1_OCTET_STRING_cmp on two present octet strings: 0 iff equal
ASN1_OCTET_STRING_cmp(a, b) == IF a = b THEN 0 ELSE 1

\* X509_verify_cert: a chain from c through issuers found among the
\* untrusted certificates or the store, ending at a self-signed certificate
\* of the store; no certificate of the chain is expired
RECURSIVE X509_verify_cert(_, _, _, _)
X509_verify_cert(store, untrusted, c, seen) ==
  /\ ~Cert[c].expired
  /\ IF X509_check_issued(c, c)
       THEN c \in store
       ELSE \E d \in (store \cup untrusted) \ seen :
              /\ X509_check_issued(d, c)
              /\ X509_verify_cert(store, untrusted, d, seen \cup {c})

(***************************************************************************)
(* Messages.  A PKIMessage is a record                                     *)
(*   type          body type                                               *)
(*   pvno, transactionID, senderNonce, recipNonce, sender, senderKID       *)
(*   implicitConfirm   generalInfo carries id-it-implicitConfirm           *)
(*   protectionAlg "none", "pbm", "dh", "sig" or "unknown"                 *)
(*   protKey       the secret or private key the protection bits were      *)
(*                 computed with (NIL without protection bits)             *)
(*   protection    the protection bits: a record [key, data] of the key    *)
(*                 and the protected part they were computed with          *)
(*   extraCerts    sequence of certificates                                *)
(*   response      IP/CP/KUP: sequence of CertResponse records             *)
(*                 [certReqId, status, cert]                               *)
(*   caPubs        IP/CP/KUP: sequence of certificates                     *)
(*   status        RP, error: PKIStatus of the first PKIStatusInfo         *)
(*   pollRep       pollRep: sequence of [certReqId, checkAfter]            *)
(***************************************************************************)
OSSL_CMP_MSG_get_bodytype(msg) == msg.type

IS_ENOLLMENT(t) ==
  t = OSSL_CMP_PKIBODY_IP \/ t = OSSL_CMP_PKIBODY_CP \/ t = OSSL_CMP_PKIBODY_KUP

\* index of the CertResponse with the given certReqId (the first one for -1),
\* 0 when there is none
CMP_CERTREPMESSAGE_get0_certResponse(response, rid) ==
  LET hits == {i \in 1..Len(response) : rid = -1 \/ rid = response[i].certReqId}
  IN IF hits = {} THEN 0 ELSE CHOOSE i \in hits : \A j \in hits : i <= j

\* index of the PollRep with the given certReqId (the first one for -1)
CMP_POLLREPCONTENT_pollRep_get0(prc, rid) ==
  LET hits == {i \in 1..Len(prc) : rid = -1 \/ rid = prc[i].certReqId}
  IN IF hits = {} THEN 0 ELSE CHOOSE i \in hits : \A j \in hits : i <= j

(***************************************************************************)
(* Sender-certificate discovery and protection validation (cmp_vfy.c)      *)
(***************************************************************************)
\* check_kid: 0 iff skid is given and the certificate has no equal key id
check_kid(c, skid) ==
  IF skid # NULL
    THEN Cert[c].skid # NULL /\ ASN1_OCTET_STRING_cmp(Cert[c].skid, skid) = 0
    ELSE TRUE

cert_acceptable(c, msg) ==
  /\ c # NIL
  /\ ~Cert[c].expired
  /\ Cert[c].subject = msg.sender
  /\ check_kid(c, msg.senderKID)

\* OSSL_CMP_sk_X509_add1_cert(sk, cert, no_duplicates, prepend)
sk_X509_add1_cert(sk, c, no_dups, prepend) ==
  IF no_dups /\ c \in Range(sk) THEN sk
  ELSE IF prepend THEN <<c>> \o sk ELSE Append(sk, c)

RECURSIVE find_acceptable_certs(_, _, _)
find_acceptable_certs(certs, msg, sk) ==
  IF certs = << >> THEN sk
  ELSE find_acceptable_certs(Tail(certs), msg,
         IF cert_acceptable(Head(certs), msg)
           THEN sk_X509_add1_cert(sk, Head(certs), TRUE, FALSE)
           ELSE sk)

\* the order in which OSSL_CMP_X509_STORE_get1_certs lists a store
StoreOrder ==
  <<"R", "S1", "S2", "SK", "X", "SX", "E", "N1", "N2", "N3", "I", "C1">>

X509_STORE_get1_certs(store) ==
  LET InStore(c) == c \in store IN SelectSeq(StoreOrder, InStore)

find_server_cert(ts, untrusted, msg) ==
  find_acceptable_certs(X509_STORE_get1_certs(ts), msg,
                        find_acceptable_certs(untrusted, msg, << >>))

OSSL_CMP_validate_cert_path(ctx, trusted_store, c) ==
  c # NIL /\ X509_verify_cert(trusted_store, Range(ctx.untrusted_certs), c, {})

\* OSSL_CMP_X509_STORE_add1_certs(store, certs, only_self_signed)
X509_STORE_add1_certs(store, certs, only_self_signed) ==
  store \cup {c \in Range(certs) : ~only_self_signed \/ X509_check_issued(c, c)}

srv_cert_valid_3gpp(ctx, scrt, msg) ==
  LET store == X509_STORE_add1_certs({}, msg.extraCerts, TRUE)
      i     == CMP_CERTREPMESSAGE_get0_certResponse(msg.response, 0)
      newcrt == IF i = 0 THEN NIL ELSE msg.response[i].cert
  IN /\ OSSL_CMP_validate_cert_path(ctx, store, scrt)
     /\ OSSL_CMP_validate_cert_path(ctx, store, newcrt)

\* first certificate of the sequence that is in the set ok, NIL when there
\* is none
FirstThat(sk, ok) ==
  LET hits == {i \in 1..Len(sk) : sk[i] \in ok}
  IN IF hits = {} THEN NIL ELSE sk[CHOOSE i \in hits : \A j \in hits : i <= j]

\* Variant of the selection that takes the first candidate as it is
select_validated_unchecked(ctx, found) ==
  IF found = << >> THEN NIL ELSE Head(found)

\* find_srvcert: select first server cert that can be validated
select_validated(ctx, found) ==
  LET PathOK(c) == OSSL_CMP_validate_cert_path(ctx, ctx.trusted_store, c)
  IN FirstThat(found, {c \in Range(found) : PathOK(c)})

\* Variant of find_srvcert that keeps the cached certificate when the search
\* selects none
find_srvcert_keep_cached(ctx, msg) ==
  LET selected(scrt, by_path) ==
        [ctx  |-> IF scrt # NIL THEN [ctx EXCEPT !.validatedSrvCert = scrt]
                  ELSE ctx,
         scrt |-> scrt,
         via  |-> IF by_path # NIL THEN "path"
                  ELSE IF scrt # NIL THEN "3gpp" ELSE "none"]
      validated(found, by_path) ==
        LET Ok3gpp(c) == srv_cert_valid_3gpp(ctx, c, msg)
        IN selected(IF by_path # NIL THEN by_path
                    ELSE IF ctx.permitTAInExtraCertsForIR
                            /\ OSSL_CMP_MSG_get_bodytype(msg)
                                 = OSSL_CMP_PKIBODY_IP
                      THEN FirstThat(found,
                                     {c \in Range(found) : Ok3gpp(c)})
                    ELSE NIL,
                    by_path)
      search(found) ==
        validated(found,
                  LET PathOK(c) ==
                        OSSL_CMP_validate_cert_path(ctx, ctx.trusted_store, c)
                  IN FirstThat(found, {c \in Range(found) : PathOK(c)}))
  IN
  IF ctx.validatedSrvCert # NIL /\ cert_acceptable(ctx.validatedSrvCert, msg)
    THEN [ctx |-> ctx, scrt |-> ctx.validatedSrvCert, via |-> "cache"]
    ELSE search(find_server_cert(ctx.trusted_store, ctx.untrusted_certs, msg))

\* Variant of the condition that admits the exception for every body type
permit_3gpp_any_body(ctx, msg) == ctx.permitTAInExtraCertsForIR

\* find_srvcert: the condition for the exceptional 3GPP TS 33.310 handling
permit_3gpp(ctx, msg) ==
  /\ ctx.permitTAInExtraCertsForIR
  /\ OSSL_CMP_MSG_get_bodytype(msg) = OSSL_CMP_PKIBODY_IP

\* find_srvcert: [ctx, scrt, via]; via tells how scrt was obtained
find_srvcert(ctx, msg) ==
  LET \* scrt: the certificate selected, by path validation or by way of
      \* the exception
      selected(scrt, by_path) ==
        [ctx  |-> [ctx EXCEPT !.validatedSrvCert = scrt],
         scrt |-> scrt,
         via  |-> IF by_path # NIL THEN "path"
                  ELSE IF scrt # NIL THEN "3gpp" ELSE "none"]
      \* by_path: the first candidate that can be validated
      validated(found, by_path) ==
        LET Ok3gpp(c) == srv_cert_valid_3gpp(ctx, c, msg)
        IN selected(IF by_path # NIL THEN by_path
                    ELSE IF permit_3gpp(ctx, msg)
                      THEN FirstThat(found,
                                     {c \in Range(found) : Ok3gpp(c)})
                    ELSE NIL,
                    by_path)
      \* found: the server cert candidates from any available source
      search(found) == validated(found, select_validated(ctx, found))
  IN
  IF ctx.validatedSrvCert # NIL /\ cert_acceptable(ctx.validatedSrvCert, msg)
    THEN [ctx |-> ctx, scrt |-> ctx.validatedSrvCert, via |-> "cache"]
    ELSE search(find_server_cert(ctx.trusted_store, ctx.untrusted_certs, msg))

\* Variant of the choice of scrt that prefers a certificate that
\* find_srvcert finds to the pinned one
select_srvCert_found_first(ctx, msg) ==
  LET pinned == [ctx |-> ctx, scrt |-> ctx.srvCert, via |-> "pinned"]
  IN IF ctx.srvCert = NIL THEN find_srvcert(ctx, msg)
     ELSE IF find_srvcert(ctx, msg).scrt # NIL THEN find_srvcert(ctx, msg)
     ELSE pinned

\* OSSL_CMP_validate_msg: scrt is ctx->srvCert and, only when that is NULL,
\* what find_srvcert gives: [ctx, scrt, via]
select_srvCert(ctx, msg) ==
  IF ctx.srvCert # NIL
    THEN [ctx |-> ctx, scrt |-> ctx.srvCert, via |-> "pinned"]
    ELSE find_srvcert(ctx, msg)

\* msg->protection == NULL
NoProtection == [key |-> NIL, data |-> [type |-> -1]]

\* CMP_PROTECTEDPART: the header and the body of the message
ProtectedPart(msg) ==
  [f \in DOMAIN msg \ {"protection", "protKey", "extraCerts"} |-> msg[f]]

\* Variant of CMP_calc_protection that computes the bits over the header
\* without the body
CMP_calc_protection_header_only(msg, secret, pkey) ==
  LET bits(key) ==
        [key |-> key,
         data |-> [f \in DOMAIN ProtectedPart(msg)
                         \ {"type", "body", "response", "status", "pollRep",
                            "caPubs"}
                    |-> msg[f]]]
  IN IF secret # NIL /\ pkey = NIL
       THEN IF msg.protectionAlg = "pbm" THEN bits(secret) ELSE NoProtection
     ELSE IF secret = NIL /\ pkey # NIL
       THEN IF msg.protectionAlg = "sig" THEN bits(pkey) ELSE NoProtection
     ELSE NoProtection

\* CMP_calc_protection: the MAC or the signature over the protected part,
\* as the protectionAlg of the header has it; NoProtection for NULL
CMP_calc_protection(msg, secret, pkey) ==
  LET bits(key) == [key |-> key, data |-> ProtectedPart(msg)]
  IN IF secret # NIL /\ pkey = NIL
       THEN IF msg.protectionAlg = "pbm" THEN bits(secret) ELSE NoProtection
     ELSE IF secret = NIL /\ pkey # NIL
       THEN IF msg.protectionAlg = "sig" THEN bits(pkey) ELSE NoProtection
     ELSE NoProtection

\* Variant of CMP_verify_signature that does not look at the KeyUsage
CMP_verify_signature_any_keyusage(ctx, msg, c) ==
  /\ msg.protection # NoProtection
  /\ msg.protection = [key |-> Cert[c].key, data |-> ProtectedPart(msg)]

\* CMP_verify_signature: X509_get_key_usage gives all bits for a certificate
\* without KeyUsage extension; EVP_VerifyFinal accepts the bits that the
\* private key of the certificate gives for the protected part
CMP_verify_signature(ctx, msg, c) ==
  /\ ctx.ignore_keyusage \/ Cert[c].ku # "nods"
  /\ msg.protection # NoProtection
  /\ msg.protection = [key |-> Cert[c].key, data |-> ProtectedPart(msg)]

\* CMP_verify_PBMAC
CMP_verify_PBMAC(msg, secret) ==
  LET valid(protection) ==
        protection # NoProtection /\ protection = msg.protection
  IN valid(CMP_calc_protection(msg, secret, NIL))

\* Variant without the comparison with the expected sender
unexpected_sender_ignored(ctx, msg) == FALSE

\* OSSL_CMP_validate_msg: the sender is not the expected one
unexpected_sender(ctx, msg) ==
  ctx.expected_sender # NIL /\ ctx.expected_sender # msg.sender

\* OSSL_CMP_validate_msg: [ctx, ok, errs, scrt, via]
\*   scrt  the certificate the signature was checked with (NIL if none)
\*   via   how scrt was obtained: "pinned", or as find_srvcert tells; "pbm"
\*         for a MAC; "" if validation ended before a certificate was sought
OSSL_CMP_validate_msg(ctx, msg) ==
  LET fail(c, e) == [ctx |-> c, ok |-> FALSE, errs |-> e, scrt |-> NIL, via |-> ""]
      \* f: the certificate to verify the signature with, if any
      verify(f) ==
        IF f.scrt = NIL
          THEN [ctx |-> f.ctx, ok |-> FALSE,
                errs |-> <<"NO_VALID_SERVER_CERT_FOUND",
                           "NO_SUITABLE_SERVER_CERT">>,
                scrt |-> NIL, via |-> f.via]
        ELSE IF CMP_verify_signature(f.ctx, msg, f.scrt)
          THEN [ctx |-> f.ctx, ok |-> TRUE, errs |-> << >>,
                scrt |-> f.scrt, via |-> f.via]
        ELSE [ctx |-> f.ctx, ok |-> FALSE,
              errs |-> <<"ERROR_VALIDATING_PROTECTION">>,
              scrt |-> f.scrt, via |-> f.via]
  IN
  IF msg.protectionAlg = "none" \/ msg.protection = NoProtection
    THEN fail(ctx, <<"MISSING_PROTECTION">>)
  ELSE IF msg.protectionAlg = "pbm"
    THEN IF CMP_verify_PBMAC(msg, ctx.secretValue)
           THEN [ctx |-> IF msg.type \in {OSSL_CMP_PKIBODY_IP, OSSL_CMP_PKIBODY_CP,
                                         OSSL_CMP_PKIBODY_KUP, OSSL_CMP_PKIBODY_CCP}
                           THEN [ctx EXCEPT !.trusted_store =
                                   X509_STORE_add1_certs(@, msg.caPubs, FALSE)]
                           ELSE ctx,
                 ok |-> TRUE, errs |-> << >>, scrt |-> NIL, via |-> "pbm"]
           ELSE fail(ctx, <<"WRONG_PBM_VALUE">>)
  ELSE IF msg.protectionAlg = "dh"
    THEN fail(ctx, <<"UNSUPPORTED_PROTECTION_ALG_DHBASEDMAC">>)
  ELSE IF msg.protectionAlg = "unknown"
    THEN fail(ctx, <<"UNKNOWN_ALGORITHM_ID">>)
  ELSE IF msg.sender = "notDN"
    THEN fail(ctx, <<"SENDER_GENERALNAME_TYPE_NOT_SUPPORTED">>)
  ELSE IF unexpected_sender(ctx, msg)
    THEN fail(ctx, <<"UNEXPECTED_SENDER", "UNEXPECTED_SENDER">>)
  ELSE verify(select_srvCert(ctx, msg))

(***************************************************************************)
(* Header construction and message builders (cmp_hdr.c, cmp_msg.c,         *)
(* cmp_protect.c).  The random bytes a builder draws are parameters.       *)
(***************************************************************************)
\* CMP_ASN1_OCTET_STRING_set1: the target becomes a copy of src (or NULL)
CMP_ASN1_OCTET_STRING_set1(tgt, src) == src

\* Variant of OSSL_CMP_CTX_set1_last_senderNonce that keeps a nonce already
\* stored
CMP_CTX_set1_last_senderNonce_stale(ctx, nonce) ==
  IF nonce = NULL \/ ctx.last_senderNonce # NULL THEN ctx
  ELSE [ctx EXCEPT !.last_senderNonce = CMP_ASN1_OCTET_STRING_set1(@, nonce)]

\* OSSL_CMP_CTX_set1_last_senderNonce: fails on a NULL nonce
CMP_CTX_set1_last_senderNonce(ctx, nonce) ==
  IF nonce = NULL THEN ctx
  ELSE [ctx EXCEPT !.last_senderNonce = CMP_ASN1_OCTET_STRING_set1(@, nonce)]

\* Variant of the transactionID step of OSSL_CMP_HDR_init that generates a
\* transactionID for every header
HDR_transactionID_fresh(ctx, rand_tid) ==
  [ctx EXCEPT !.transactionID = rand_tid]

\* OSSL_CMP_HDR_init: a transactionID is generated if the context has none
HDR_transactionID(ctx, rand_tid) ==
  IF ctx.transactionID = NULL
    THEN [ctx EXCEPT !.transactionID = rand_tid]
    ELSE ctx

\* OSSL_CMP_HDR_init(ctx, hdr): [ok, ctx, hdr, errs]
\*   rand_tid, rand_nonce: the bytes RAND_bytes delivers
OSSL_CMP_HDR_init(ctx, rand_tid, rand_nonce) ==
  LET sender == IF ctx.clCert # NIL THEN Cert[ctx.clCert].subject
                ELSE ctx.subjectName
      c1 == IF ctx.srvCert # NIL /\ ctx.expected_sender = NIL
              THEN [ctx EXCEPT !.expected_sender = Cert[ctx.srvCert].subject]
              ELSE ctx
      \* c2: the context once it has a transactionID
      fill(c2) ==
        [ok |-> TRUE,
         ctx |-> CMP_CTX_set1_last_senderNonce(c2, rand_nonce),
         hdr |-> [pvno          |-> OSSL_CMP_PVNO,
                  sender        |-> sender,
                  recipNonce    |->
                    CMP_ASN1_OCTET_STRING_set1(NULL, c2.recipNonce),
                  transactionID |->
                    CMP_ASN1_OCTET_STRING_set1(NULL, c2.transactionID),
                  senderNonce   |-> rand_nonce],
         errs |-> << >>]
  IN IF sender = NIL /\ ctx.referenceValue = NIL
       THEN [ok |-> FALSE, ctx |-> ctx, hdr |-> NIL,
             errs |-> <<"NO_SENDER_NO_REFERENCE">>]
       ELSE fill(HDR_transactionID(c1, rand_tid))

\* CMP_sk_X509_add1_certs(sk, certs, no_self_signed, no_duplicates)
RECURSIVE CMP_sk_X509_add1_certs(_, _, _, _)
CMP_sk_X509_add1_certs(sk, certs, no_self_signed, no_duplicates) ==
  IF certs = << >> THEN sk
  ELSE CMP_sk_X509_add1_certs(
         IF ~no_self_signed \/ ~X509_check_issued(Head(certs), Head(certs))
           THEN sk_X509_add1_cert(sk, Head(certs), no_duplicates, FALSE)
           ELSE sk,
         Tail(certs), no_self_signed, no_duplicates)

\* The chain X509_verify_cert builds from the last certificate of chain
\* through issuers found among certs, as far as it gets
RECURSIVE X509_STORE_CTX_get0_chain(_, _)
X509_STORE_CTX_get0_chain(certs, chain) ==
  LET c == chain[Len(chain)]
      Issues(d) == X509_check_issued(d, c) /\ d \notin Range(chain)
      issuers == SelectSeq(certs, Issues)
  IN IF X509_check_issued(c, c) \/ issuers = << >> THEN chain
     ELSE X509_STORE_CTX_get0_chain(certs, Append(chain, Head(issuers)))

\* Variant of CMP_build_cert_chain that keeps the self-signed certificates
CMP_build_cert_chain_with_root(certs, cert) ==
  CMP_sk_X509_add1_certs(<< >>, X509_STORE_CTX_get0_chain(certs, <<cert>>),
                         FALSE, TRUE)

\* CMP_build_cert_chain(certs, cert): cert and the intermediate certificates
\* towards the trust anchor, without self-signed certificates
CMP_build_cert_chain(certs, cert) ==
  CMP_sk_X509_add1_certs(<< >>, X509_STORE_CTX_get0_chain(certs, <<cert>>),
                         TRUE, TRUE)

\* OSSL_CMP_MSG_add_extraCerts(ctx, msg): msg with the certificates added
OSSL_CMP_MSG_add_extraCerts(ctx, msg) ==
  LET own == IF ctx.clCert # NIL
               THEN CMP_sk_X509_add1_certs(
                      Append(msg.extraCerts, ctx.clCert),
                      CMP_build_cert_chain(ctx.untrusted_certs, ctx.clCert),
                      TRUE, TRUE)
               ELSE msg.extraCerts
  IN [msg EXCEPT !.extraCerts =
        CMP_sk_X509_add1_certs(own, ctx.extraCertsOut, FALSE, TRUE)]

\* Variant of MSG_protect_pbmac that computes the MAC with the referenceValue
\* in the place of the secret
MSG_protect_pbmac_reference(ctx, msg) ==
  LET alg == [msg EXCEPT !.protectionAlg = "pbm"]
      kid == IF ctx.referenceValue # NIL
               THEN [alg EXCEPT !.senderKID = ctx.referenceValue] ELSE alg
      sealed(m, protection) ==
        IF protection = NoProtection
          THEN [ok |-> FALSE, msg |-> m,
                errs |-> <<"ERROR_PROTECTING_MESSAGE">>]
          ELSE [ok |-> TRUE,
                msg |-> [m EXCEPT !.protection = protection,
                                  !.protKey = ctx.secretValue],
                errs |-> << >>]
      calc(m) == sealed(m, CMP_calc_protection(m, ctx.referenceValue, NIL))
  IN calc(OSSL_CMP_MSG_add_extraCerts(ctx, kid))

\* OSSL_CMP_MSG_protect with a secretValue: PasswordBasedMac, the
\* referenceValue as senderKID
MSG_protect_pbmac(ctx, msg) ==
  LET alg == [msg EXCEPT !.protectionAlg = "pbm"]
      kid == IF ctx.referenceValue # NIL
               THEN [alg EXCEPT !.senderKID = ctx.referenceValue] ELSE alg
      sealed(m, protection) ==
        IF protection = NoProtection
          THEN [ok |-> FALSE, msg |-> m,
                errs |-> <<"ERROR_PROTECTING_MESSAGE">>]
          ELSE [ok |-> TRUE,
                msg |-> [m EXCEPT !.protection = protection,
                                  !.protKey = ctx.secretValue],
                errs |-> << >>]
      calc(m) == sealed(m, CMP_calc_protection(m, ctx.secretValue, NIL))
  IN calc(OSSL_CMP_MSG_add_extraCerts(ctx, kid))

\* Variant of MSG_protect_sig that does not check that the certificate and
\* the key match
MSG_protect_sig_unchecked(ctx, msg) ==
  LET alg == [msg EXCEPT !.protectionAlg = "sig"]
      kid == IF Cert[ctx.clCert].skid # NULL
               THEN [alg EXCEPT !.senderKID = Cert[ctx.clCert].skid] ELSE alg
      sealed(m, protection) ==
        IF protection = NoProtection
          THEN [ok |-> FALSE, msg |-> m,
                errs |-> <<"ERROR_PROTECTING_MESSAGE">>]
          ELSE [ok |-> TRUE,
                msg |-> [m EXCEPT !.protection = protection,
                                  !.protKey = ctx.pkey],
                errs |-> << >>]
      calc(m) == sealed(m, CMP_calc_protection(m, NIL, ctx.pkey))
  IN calc(OSSL_CMP_MSG_add_extraCerts(ctx, kid))

\* OSSL_CMP_MSG_protect with clCert and pkey: signature, the subject key
\* identifier of clCert as senderKID
MSG_protect_sig(ctx, msg) ==
  LET alg == [msg EXCEPT !.protectionAlg = "sig"]
      kid == IF Cert[ctx.clCert].skid # NULL
               THEN [alg EXCEPT !.senderKID = Cert[ctx.clCert].skid] ELSE alg
      sealed(m, protection) ==
        IF protection = NoProtection
          THEN [ok |-> FALSE, msg |-> m,
                errs |-> <<"ERROR_PROTECTING_MESSAGE">>]
          ELSE [ok |-> TRUE,
                msg |-> [m EXCEPT !.protection = protection,
                                  !.protKey = ctx.pkey],
                errs |-> << >>]
      calc(m) == sealed(m, CMP_calc_protection(m, NIL, ctx.pkey))
  IN IF ~X509_check_private_key(ctx.clCert, ctx.pkey)
       THEN [ok |-> FALSE, msg |-> msg,
             errs |-> <<"CERT_AND_KEY_DO_NOT_MATCH",
                        "ERROR_PROTECTING_MESSAGE">>]
       ELSE calc(OSSL_CMP_MSG_add_extraCerts(ctx, kid))

\* Variant of OSSL_CMP_MSG_protect that prefers the signature to the
\* PasswordBasedMac
OSSL_CMP_MSG_protect_sig_first(ctx, msg) ==
  IF ctx.unprotectedSend
    THEN [ok |-> TRUE, msg |-> msg, errs |-> << >>]
  ELSE IF ctx.clCert # NIL /\ ctx.pkey # NIL
    THEN MSG_protect_sig(ctx, msg)
  ELSE IF ctx.secretValue # NIL
    THEN MSG_protect_pbmac(ctx, msg)
  ELSE [ok |-> FALSE, msg |-> msg,
        errs |-> <<"MISSING_KEY_INPUT_FOR_CREATING_PROTECTION",
                   "ERROR_PROTECTING_MESSAGE">>]

\* OSSL_CMP_MSG_protect(ctx, msg): [ok, msg, errs]
OSSL_CMP_MSG_protect(ctx, msg) ==
  IF ctx.unprotectedSend
    THEN [ok |-> TRUE, msg |-> msg, errs |-> << >>]
  ELSE IF ctx.secretValue # NIL
    THEN MSG_protect_pbmac(ctx, msg)
  ELSE IF ctx.clCert # NIL /\ ctx.pkey # NIL
    THEN MSG_protect_sig(ctx, msg)
  ELSE [ok |-> FALSE, msg |-> msg,
        errs |-> <<"MISSING_KEY_INPUT_FOR_CREATING_PROTECTION",
                   "ERROR_PROTECTING_MESSAGE">>]

\* Variant of MSG_create_protect that returns the message whatever
\* OSSL_CMP_MSG_protect returns
MSG_create_unchecked(ctx, bodytype, body, rand_tid, rand_nonce, err_code) ==
  LET \* h: the result of OSSL_CMP_HDR_init; p: of OSSL_CMP_MSG_protect
      protected(h, p) ==
        [ok |-> TRUE, ctx |-> h.ctx, msg |-> p.msg,
         hn |-> h.hdr.senderNonce, errs |-> << >>]
      created(h) ==
        IF ~h.ok
          THEN [ok |-> FALSE, ctx |-> h.ctx, msg |-> NIL, hn |-> NULL,
                errs |-> Append(h.errs, err_code)]
          ELSE protected(h, OSSL_CMP_MSG_protect(h.ctx,
                 [type |-> bodytype, pvno |-> h.hdr.pvno,
                  sender |-> h.hdr.sender,
                  transactionID |-> h.hdr.transactionID,
                  senderNonce |-> h.hdr.senderNonce,
                  recipNonce |-> h.hdr.recipNonce,
                  senderKID |-> NULL, body |-> body,
                  protectionAlg |-> "none", protKey |-> NIL,
                  protection |-> NoProtection, extraCerts |-> << >>]))
  IN created(OSSL_CMP_HDR_init(ctx, rand_tid, rand_nonce))

\* OSSL_CMP_MSG_create followed by the body of a builder and
\* OSSL_CMP_MSG_protect: [ok, ctx, msg, hn, errs].  body holds the body
\* fields; hn is the senderNonce of the header OSSL_CMP_HDR_init built
\* (NULL if it built none).
MSG_create_protect(ctx, bodytype, body, rand_tid, rand_nonce, err_code) ==
  LET \* h: the result of OSSL_CMP_HDR_init; p: of OSSL_CMP_MSG_protect
      protected(h, p) ==
        IF ~p.ok
          THEN [ok |-> FALSE, ctx |-> h.ctx, msg |-> NIL,
                hn |-> h.hdr.senderNonce, errs |-> Append(p.errs, err_code)]
          ELSE [ok |-> TRUE, ctx |-> h.ctx, msg |-> p.msg,
                hn |-> h.hdr.senderNonce, errs |-> << >>]
      created(h) ==
        IF ~h.ok
          THEN [ok |-> FALSE, ctx |-> h.ctx, msg |-> NIL, hn |-> NULL,
                errs |-> Append(h.errs, err_code)]
          ELSE protected(h, OSSL_CMP_MSG_protect(h.ctx,
                 [type |-> bodytype, pvno |-> h.hdr.pvno,
                  sender |-> h.hdr.sender,
                  transactionID |-> h.hdr.transactionID,
                  senderNonce |-> h.hdr.senderNonce,
                  recipNonce |-> h.hdr.recipNonce,
                  senderKID |-> NULL, body |-> body,
                  protectionAlg |-> "none", protKey |-> NIL,
                  protection |-> NoProtection, extraCerts |-> << >>]))
  IN created(OSSL_CMP_HDR_init(ctx, rand_tid, rand_nonce))

\* OSSL_CMP_certreq_new(ctx, type, err_code)
OSSL_CMP_certreq_new(ctx, type, err_code, rand_tid, rand_nonce) ==
  LET \* h: the result of OSSL_CMP_HDR_init; there is no CSR to put in
      no_csr(h) ==
        [ok |-> FALSE, ctx |-> h.ctx, msg |-> NIL,
         hn |-> IF h.ok THEN h.hdr.senderNonce ELSE NULL,
         errs |-> IF h.ok THEN <<"ERROR_CREATING_P10CR", err_code>>
                  ELSE Append(h.errs, err_code)]
  IN
  IF type # OSSL_CMP_PKIBODY_P10CR /\ ctx.pkey = NIL /\ ctx.newPkey = NIL
    THEN [ok |-> FALSE, ctx |-> ctx, msg |-> NIL, hn |-> NULL,
          errs |-> <<"INVALID_ARGS">>]
  ELSE IF type = OSSL_CMP_PKIBODY_P10CR /\ ~ctx.p10CSR
    THEN no_csr(OSSL_CMP_HDR_init(ctx, rand_tid, rand_nonce))
  ELSE MSG_create_protect(ctx, type,
         [certReqId |-> OSSL_CMP_CERTREQID, implicitConfirm |-> ctx.implicitConfirm],
         rand_tid, rand_nonce, err_code)

\* OSSL_CMP_pollReq_new(ctx, crid)
OSSL_CMP_pollReq_new(ctx, crid, rand_tid, rand_nonce) ==
  MSG_create_protect(ctx, OSSL_CMP_PKIBODY_POLLREQ, [certReqId |-> crid],
                     rand_tid, rand_nonce, "ERROR_CREATING_POLLREQ")

\* Variant of OSSL_CMP_certConf_new that always reports acceptance
OSSL_CMP_certConf_new_accepted(ctx, fail_info, rand_tid, rand_nonce) ==
  IF ctx.newClCert = NIL
    THEN [ok |-> FALSE, ctx |-> ctx, msg |-> NIL, hn |-> NULL,
          errs |-> <<"INVALID_ARGS">>]
  ELSE MSG_create_protect(ctx, OSSL_CMP_PKIBODY_CERTCONF,
         [certReqId |-> OSSL_CMP_CERTREQID,
          certHash  |-> ctx.newClCert,
          status    |-> OSSL_CMP_PKISTATUS_accepted,
          failInfo  |-> 0],
         rand_tid, rand_nonce, "ERROR_CREATING_CERTCONF")

\* OSSL_CMP_certConf_new(ctx, fail_info, text)
OSSL_CMP_certConf_new(ctx, fail_info, rand_tid, rand_nonce) ==
  IF ctx.newClCert = NIL
    THEN [ok |-> FALSE, ctx |-> ctx, msg |-> NIL, hn |-> NULL,
          errs |-> <<"INVALID_ARGS">>]
  ELSE MSG_create_protect(ctx, OSSL_CMP_PKIBODY_CERTCONF,
         [certReqId |-> OSSL_CMP_CERTREQID,
          certHash  |-> ctx.newClCert,
          status    |-> IF fail_info # 0 THEN OSSL_CMP_PKISTATUS_rejection
                        ELSE OSSL_CMP_PKISTATUS_accepted,
          failInfo  |-> fail_info],
         rand_tid, rand_nonce, "ERROR_CREATING_CERTCONF")

\* OSSL_CMP_rr_new
OSSL_CMP_rr_new(ctx, rand_tid, rand_nonce) ==
  IF ctx.oldCert = NIL /\ ~ctx.p10CSR
    THEN [ok |-> FALSE, ctx |-> ctx, msg |-> NIL, hn |-> NULL,
          errs |-> <<"INVALID_ARGS">>]
  ELSE MSG_create_protect(ctx, OSSL_CMP_PKIBODY_RR,
         [certDetails |-> ctx.oldCert], rand_tid, rand_nonce,
         "ERROR_CREATING_RR")

\* OSSL_CMP_genm_new: CMP_gen_new with an empty itav stack
OSSL_CMP_genm_new(ctx, rand_tid, rand_nonce) ==
  MSG_create_protect(ctx, OSSL_CMP_PKIBODY_GENM, [itavs |-> << >>],
                     rand_tid, rand_nonce, "ERROR_CREATING_GENM")

(***************************************************************************)
(* Received-message check (cmp_vfy.c, cmp_ses.c)                           *)
(***************************************************************************)
\* Variant of unprotected_exception that does not look at the status of the
\* CertResponse
unprotected_exception_any_status(ctx, rep, expected_type) ==
  LET rcvd_type == OSSL_CMP_MSG_get_bodytype(rep)
      i == CMP_CERTREPMESSAGE_get0_certResponse(rep.response, -1)
  IN /\ ctx.unprotectedErrors
     /\ \/ rcvd_type = OSSL_CMP_PKIBODY_ERROR
        \/ /\ rcvd_type = OSSL_CMP_PKIBODY_RP
           /\ rep.status = OSSL_CMP_PKISTATUS_rejection
        \/ rcvd_type = OSSL_CMP_PKIBODY_PKICONF
        \/ /\ rcvd_type = expected_type /\ IS_ENOLLMENT(rcvd_type)
           /\ ~(Len(rep.response) > 1)
           /\ i # 0

\* unprotected_exception(ctx, rep, invalid_protection, expected_type)
unprotected_exception(ctx, rep, expected_type) ==
  LET rcvd_type == OSSL_CMP_MSG_get_bodytype(rep)
      i == CMP_CERTREPMESSAGE_get0_certResponse(rep.response, -1)
  IN /\ ctx.unprotectedErrors
     /\ \/ rcvd_type = OSSL_CMP_PKIBODY_ERROR
        \/ /\ rcvd_type = OSSL_CMP_PKIBODY_RP
           /\ rep.status = OSSL_CMP_PKISTATUS_rejection
        \/ rcvd_type = OSSL_CMP_PKIBODY_PKICONF
        \/ /\ rcvd_type # OSSL_CMP_PKIBODY_ERROR
           /\ ~(rcvd_type = OSSL_CMP_PKIBODY_RP
                /\ rep.status = OSSL_CMP_PKISTATUS_rejection)
           /\ rcvd_type # OSSL_CMP_PKIBODY_PKICONF
           /\ rcvd_type = expected_type /\ IS_ENOLLMENT(rcvd_type)
           /\ ~(Len(rep.response) > 1)
           /\ i # 0
           /\ rep.response[i].status = OSSL_CMP_PKISTATUS_rejection

\* sk_prepend1_certs(sk, certs)
RECURSIVE sk_prepend1_certs(_, _)
sk_prepend1_certs(sk, certs) ==
  IF certs = << >> THEN sk
  ELSE sk_prepend1_certs(
         sk_X509_add1_cert(sk, certs[Len(certs)], TRUE, TRUE),
         SubSeq(certs, 1, Len(certs) - 1))

\* Variant of OSSL_CMP_CTX_set1_recipNonce that keeps a nonce already stored
CMP_CTX_set1_recipNonce_stale(ctx, nonce) ==
  IF nonce = NULL THEN [ok |-> FALSE, ctx |-> ctx]
  ELSE IF ctx.recipNonce # NULL THEN [ok |-> TRUE, ctx |-> ctx]
  ELSE [ok |-> TRUE,
        ctx |-> [ctx EXCEPT !.recipNonce = CMP_ASN1_OCTET_STRING_set1(@, nonce)]]

\* CMP_CTX_set1_recipNonce: [ok, ctx]
CMP_CTX_set1_recipNonce(ctx, nonce) ==
  IF nonce = NULL THEN [ok |-> FALSE, ctx |-> ctx]
  ELSE [ok |-> TRUE,
        ctx |-> [ctx EXCEPT !.recipNonce = CMP_ASN1_OCTET_STRING_set1(@, nonce)]]

\* OSSL_CMP_CTX_set1_transactionID
CMP_CTX_set1_transactionID(ctx, id) ==
  [ctx EXCEPT !.transactionID = CMP_ASN1_OCTET_STRING_set1(@, id)]

\* Variant of the transactionID comparison that lets an absent
\* transactionID pass
transactionID_unmatched_absent_ok(ctx, msg) ==
  /\ ctx.transactionID # NULL
  /\ msg.transactionID # NULL
  /\ ASN1_OCTET_STRING_cmp(ctx.transactionID, msg.transactionID) # 0

\* the comparison of the transactionID in OSSL_CMP_MSG_check_received
transactionID_unmatched(ctx, msg) ==
  /\ ctx.transactionID # NULL
  /\ \/ msg.transactionID = NULL
     \/ ASN1_OCTET_STRING_cmp(ctx.transactionID, msg.transactionID) # 0

\* Variant of the recipNonce comparison that lets an absent recipNonce pass
recipNonce_unmatched_absent_ok(ctx, msg) ==
  /\ ctx.last_senderNonce # NULL
  /\ msg.recipNonce # NULL
  /\ ASN1_OCTET_STRING_cmp(ctx.last_senderNonce, msg.recipNonce) # 0

\* the comparison of the recipNonce in OSSL_CMP_MSG_check_received
recipNonce_unmatched(ctx, msg) ==
  /\ ctx.last_senderNonce # NULL
  /\ \/ msg.recipNonce = NULL
     \/ ASN1_OCTET_STRING_cmp(ctx.last_senderNonce, msg.recipNonce) # 0

\* Variant of OSSL_CMP_MSG_check_received that stores the senderNonce of
\* the message as recipNonce before it checks the message
OSSL_CMP_MSG_check_received_store_first(ctx, msg, cb_arg) ==
  LET c0 == [ctx EXCEPT !.untrusted_certs = sk_prepend1_certs(@, msg.extraCerts),
                        !.recipNonce = IF msg.senderNonce # NULL
                                         THEN msg.senderNonce ELSE @]
      \* v: the result of OSSL_CMP_validate_msg, if the message is protected
      checked(v) ==
        LET prot == IF msg.protectionAlg = "none" THEN "missing"
                    ELSE IF v.ok THEN "valid" ELSE "invalid"
            out(c, r, e) == [ctx |-> c, ret |-> r, errs |-> e, prot |-> prot,
                             scrt |-> v.scrt, via |-> v.via]
            \* rn: the result of OSSL_CMP_CTX_set1_recipNonce
            learned(rn) ==
              IF ~rn.ok
                THEN out(v.ctx, -1, <<"NULL_ARGUMENT">>)
                ELSE out(IF rn.ctx.transactionID = NULL
                           THEN CMP_CTX_set1_transactionID(rn.ctx,
                                                           msg.transactionID)
                           ELSE rn.ctx,
                         OSSL_CMP_MSG_get_bodytype(msg), << >>)
        IN
        IF prot = "invalid" /\ ~unprotected_exception(v.ctx, msg, cb_arg)
          THEN out(v.ctx, -1, Append(v.errs, "ERROR_VALIDATING_PROTECTION"))
        ELSE IF prot = "missing" /\ ~unprotected_exception(v.ctx, msg, cb_arg)
          THEN out(v.ctx, -1, <<"MISSING_PROTECTION">>)
        ELSE IF msg.pvno # OSSL_CMP_PVNO
          THEN out(v.ctx, -1, <<"UNEXPECTED_PVNO">>)
        ELSE IF transactionID_unmatched(v.ctx, msg)
          THEN out(v.ctx, -1, <<"TRANSACTIONID_UNMATCHED">>)
        ELSE IF recipNonce_unmatched(v.ctx, msg)
          THEN out(v.ctx, -1, <<"RECIPNONCE_UNMATCHED">>)
        ELSE learned(CMP_CTX_set1_recipNonce(v.ctx, msg.senderNonce))
  IN checked(IF msg.protectionAlg # "none"
               THEN OSSL_CMP_validate_msg(c0, msg)
               ELSE [ctx |-> c0, ok |-> FALSE, errs |-> << >>,
                     scrt |-> NIL, via |-> ""])

\* OSSL_CMP_MSG_check_received(ctx, msg, unprotected_exception, cb_arg):
\*   [ctx, ret, errs, prot, scrt, via]
\*   ret   the body type, or -1
\*   prot  "valid", "invalid" or "missing": what became of the protection
\*   scrt, via  as OSSL_CMP_validate_msg gave them
OSSL_CMP_MSG_check_received(ctx, msg, cb_arg) ==
  LET c0 == [ctx EXCEPT !.untrusted_certs = sk_prepend1_certs(@, msg.extraCerts)]
      \* v: the result of OSSL_CMP_validate_msg, if the message is protected
      checked(v) ==
        LET prot == IF msg.protectionAlg = "none" THEN "missing"
                    ELSE IF v.ok THEN "valid" ELSE "invalid"
            out(c, r, e) == [ctx |-> c, ret |-> r, errs |-> e, prot |-> prot,
                             scrt |-> v.scrt, via |-> v.via]
            \* rn: the result of OSSL_CMP_CTX_set1_recipNonce
            learned(rn) ==
              IF ~rn.ok
                THEN out(v.ctx, -1, <<"NULL_ARGUMENT">>)
                ELSE out(IF rn.ctx.transactionID = NULL
                           THEN CMP_CTX_set1_transactionID(rn.ctx,
                                                           msg.transactionID)
                           ELSE rn.ctx,
                         OSSL_CMP_MSG_get_bodytype(msg), << >>)
        IN
        IF prot = "invalid" /\ ~unprotected_exception(v.ctx, msg, cb_arg)
          THEN out(v.ctx, -1, Append(v.errs, "ERROR_VALIDATING_PROTECTION"))
        ELSE IF prot = "missing" /\ ~unprotected_exception(v.ctx, msg, cb_arg)
          THEN out(v.ctx, -1, <<"MISSING_PROTECTION">>)
        ELSE IF msg.pvno # OSSL_CMP_PVNO
          THEN out(v.ctx, -1, <<"UNEXPECTED_PVNO">>)
        ELSE IF transactionID_unmatched(v.ctx, msg)
          THEN out(v.ctx, -1, <<"TRANSACTIONID_UNMATCHED">>)
        ELSE IF recipNonce_unmatched(v.ctx, msg)
          THEN out(v.ctx, -1, <<"RECIPNONCE_UNMATCHED">>)
        ELSE learned(CMP_CTX_set1_recipNonce(v.ctx, msg.senderNonce))
  IN checked(IF msg.protectionAlg # "none"
               THEN OSSL_CMP_validate_msg(c0, msg)
               ELSE [ctx |-> c0, ok |-> FALSE, errs |-> << >>,
                     scrt |-> NIL, via |-> ""])

\* expected max time per msg round trip, in pollForResponse
exp == 5

\* Variant of the start of send_receive_check that limits the time of the
\* transfer but never gives up with TOTAL_TIMEOUT
send_receive_check_timeout_never(ctx, expected_type, time) ==
  LET time_left == ctx.end_time - time
  IN IF (expected_type = OSSL_CMP_PKIBODY_POLLREP
           \/ IS_ENOLLMENT(expected_type))
        /\ ctx.totaltimeout # 0
        /\ (ctx.msgtimeout = 0 \/ time_left < ctx.msgtimeout)
       THEN [ok |-> TRUE,
             msgtimeout |-> IF time_left > 0 THEN time_left ELSE 0]
       ELSE [ok |-> TRUE, msgtimeout |-> ctx.msgtimeout]

\* send_receive_check before the transfer callback is called, at the given
\* time: [ok, msgtimeout]; msgtimeout is what ctx->msgtimeout is while the
\* callback runs
send_receive_check_timeout(ctx, expected_type, time) ==
  LET limited(time_left) ==
        IF time_left <= 0
          THEN [ok |-> FALSE, msgtimeout |-> ctx.msgtimeout]
          ELSE [ok |-> TRUE,
                msgtimeout |-> IF ctx.msgtimeout = 0
                                  \/ time_left < ctx.msgtimeout
                                 THEN time_left ELSE ctx.msgtimeout]
  IN IF (expected_type = OSSL_CMP_PKIBODY_POLLREP
           \/ IS_ENOLLMENT(expected_type))
        /\ ctx.totaltimeout # 0
       THEN limited(ctx.end_time - time)
       ELSE [ok |-> TRUE, msgtimeout |-> ctx.msgtimeout]

\* Variant of the sleep of pollForResponse that reserves no time for the
\* message round trip
pollForResponse_sleep_no_margin(ctx, check_after, time) ==
  LET limited(time_left) ==
        IF time_left <= 0 THEN [ok |-> FALSE, check_after |-> check_after]
        ELSE [ok |-> TRUE,
              check_after |-> IF time_left < check_after THEN time_left
                              ELSE check_after]
  IN IF ctx.totaltimeout # 0
       THEN limited(ctx.end_time - time)
       ELSE [ok |-> TRUE, check_after |-> check_after]

\* pollForResponse after a pollRep with the given checkAfter, at the given
\* time: [ok, check_after]; check_after is the number of seconds it then
\* sleeps
pollForResponse_sleep(ctx, check_after, time) ==
  LET limited(time_left) ==
        IF time_left <= 0 THEN [ok |-> FALSE, check_after |-> check_after]
        ELSE [ok |-> TRUE,
              check_after |-> IF time_left < check_after THEN time_left
                              ELSE check_after]
  IN IF ctx.totaltimeout # 0
       THEN limited(ctx.end_time - exp - time)
       ELSE [ok |-> TRUE, check_after |-> check_after]

\* Variant of send_receive_check that takes a response of any body type for
\* the answer to a pollReq
send_receive_check_any_body(ctx, err, rep, expected_type, not_received) ==
  LET received(chk) ==
        IF chk.ret < 0
          THEN [ok |-> FALSE, ctx |-> chk.ctx, chk |-> chk, errs |-> chk.errs]
        ELSE IF chk.ret # expected_type
                /\ expected_type # OSSL_CMP_PKIBODY_POLLREP
          THEN [ok |-> FALSE, ctx |-> chk.ctx, chk |-> chk,
                errs |-> IF chk.ret = OSSL_CMP_PKIBODY_ERROR
                           THEN <<"RECEIVED_ERROR">>
                           ELSE <<"UNEXPECTED_PKIBODY">>]
        ELSE [ok |-> TRUE, ctx |-> chk.ctx, chk |-> chk, errs |-> << >>]
  IN
  IF err # "ok"
    THEN [ok |-> FALSE, ctx |-> ctx, chk |-> NIL,
          errs |-> IF err \in {"FAILED_TO_RECEIVE_PKIMESSAGE", "READ_TIMEOUT",
                               "ERROR_DECODING_MESSAGE"}
                     THEN <<not_received>> ELSE <<"ERROR_SENDING_REQUEST">>]
    ELSE received(OSSL_CMP_MSG_check_received(ctx, rep, expected_type))

\* send_receive_check after the transfer callback has returned:
\*   [ok, ctx, errs, chk]
\*   err   what transfer_cb returned: "ok", or the name of a failure
\*   chk   the result of OSSL_CMP_MSG_check_received (NIL if not reached)
send_receive_check(ctx, err, rep, expected_type, not_received) ==
  LET \* chk: the result of OSSL_CMP_MSG_check_received
      received(chk) ==
        IF chk.ret < 0
          THEN [ok |-> FALSE, ctx |-> chk.ctx, chk |-> chk, errs |-> chk.errs]
        ELSE IF chk.ret # expected_type
                /\ ~(expected_type = OSSL_CMP_PKIBODY_POLLREP
                     /\ IS_ENOLLMENT(chk.ret))
          THEN [ok |-> FALSE, ctx |-> chk.ctx, chk |-> chk,
                errs |-> IF chk.ret = OSSL_CMP_PKIBODY_ERROR
                           THEN <<"RECEIVED_ERROR">>
                           ELSE <<"UNEXPECTED_PKIBODY">>]
        ELSE [ok |-> TRUE, ctx |-> chk.ctx, chk |-> chk, errs |-> << >>]
  IN
  IF err # "ok"
    THEN [ok |-> FALSE, ctx |-> ctx, chk |-> NIL,
          errs |-> IF err \in {"FAILED_TO_RECEIVE_PKIMESSAGE", "READ_TIMEOUT",
                               "ERROR_DECODING_MESSAGE"}
                     THEN <<not_received>> ELSE <<"ERROR_SENDING_REQUEST">>]
    ELSE received(OSSL_CMP_MSG_check_received(ctx, rep, expected_type))

(***************************************************************************)
(* Certificate request sessions (cmp_ses.c)                                *)
(***************************************************************************)
\* Absent optional INTEGER / BIT STRING of a received message
ABSENT == -1

\* OSSL_CMP_CTX_set_failInfoCode(ctx, failInfo)
CMP_CTX_set_failInfoCode(ctx, failInfo) ==
  IF failInfo = ABSENT THEN ctx ELSE [ctx EXCEPT !.failInfoCode = failInfo]

\* save_statusInfo(ctx, si): [ok, ctx].  The assignment inside the condition
\* stores the value of the comparison `status < 0`, not the status.
save_statusInfo(ctx, si) ==
  LET lt == IF si.status < 0 THEN 1 ELSE 0
      c1 == [ctx EXCEPT !.lastPKIStatus = lt]
  IN IF lt # 0 THEN [ok |-> FALSE, ctx |-> c1]
     ELSE [ok |-> TRUE, ctx |-> CMP_CTX_set_failInfoCode(c1, si.failInfo)]

\* Variant of get_cert_status that takes the certificate of a rejection
get_cert_status_rejection_granted(ctx, bodytype, crep) ==
  LET st == crep.status
      got == [crt |-> crep.cert,
              errs |-> IF crep.cert = NIL THEN <<"CERTIFICATE_NOT_FOUND">>
                       ELSE << >>]
      err(e) == [crt |-> NIL, errs |-> <<e>>]
  IN IF st = OSSL_CMP_PKISTATUS_waiting THEN err("ENCOUNTERED_WAITING")
     ELSE IF st \in {OSSL_CMP_PKISTATUS_grantedWithMods,
                     OSSL_CMP_PKISTATUS_accepted,
                     OSSL_CMP_PKISTATUS_rejection,
                     OSSL_CMP_PKISTATUS_revocationWarning,
                     OSSL_CMP_PKISTATUS_revocationNotification} THEN got
     ELSE IF st = OSSL_CMP_PKISTATUS_keyUpdateWarning
       THEN IF bodytype # OSSL_CMP_PKIBODY_KUR
              THEN err("ENCOUNTERED_KEYUPDATEWARNING") ELSE got
     ELSE err("ENCOUNTERED_UNSUPPORTED_PKISTATUS")

\* get_cert_status(ctx, bodytype, crep): [crt, errs]
get_cert_status(ctx, bodytype, crep) ==
  LET st == crep.status
      got == [crt |-> crep.cert,
              errs |-> IF crep.cert = NIL THEN <<"CERTIFICATE_NOT_FOUND">>
                       ELSE << >>]
      err(e) == [crt |-> NIL, errs |-> <<e>>]
  IN IF st = OSSL_CMP_PKISTATUS_waiting THEN err("ENCOUNTERED_WAITING")
     ELSE IF st \in {OSSL_CMP_PKISTATUS_grantedWithMods,
                     OSSL_CMP_PKISTATUS_accepted,
                     OSSL_CMP_PKISTATUS_revocationWarning,
                     OSSL_CMP_PKISTATUS_revocationNotification} THEN got
     ELSE IF st = OSSL_CMP_PKISTATUS_rejection
       THEN err("REQUEST_REJECTED_BY_CA")
     ELSE IF st = OSSL_CMP_PKISTATUS_keyUpdateWarning
       THEN IF bodytype # OSSL_CMP_PKIBODY_KUR
              THEN err("ENCOUNTERED_KEYUPDATEWARNING") ELSE got
     ELSE err("ENCOUNTERED_UNSUPPORTED_PKISTATUS")

\* OSSL_CMP_certConf_cb(ctx, cert, fail_info, text); a NULL certConf_cb_arg
\* is the empty set
OSSL_CMP_certConf_cb(ctx, cert, fail_info) ==
  IF fail_info # 0 THEN fail_info
  ELSE IF ctx.certConf_cb_arg # {}
          /\ ~OSSL_CMP_validate_cert_path(ctx, ctx.certConf_cb_arg, cert)
    THEN incorrectData
  ELSE fail_info

\* ctx->certConf_cb(ctx, ctx->newClCert, fail_info, &txt) for the callbacks
\* an application may install: the library's own, one that accepts every
\* certificate and one that rejects every certificate
certConf_cb(ctx, cert, fail_info) ==
  IF ctx.certConf_cb = "OSSL_CMP_certConf_cb"
    THEN OSSL_CMP_certConf_cb(ctx, cert, fail_info)
  ELSE IF ctx.certConf_cb = "accept" THEN 0
  ELSE incorrectData

\* ossl_cmp_ctx_set1_caPubs, ossl_cmp_ctx_set1_extraCertsIn
CMP_CTX_set1_caPubs(ctx, caPubs) == [ctx EXCEPT !.caPubs = caPubs]

CMP_CTX_set1_extraCertsIn(ctx, extraCertsIn) ==
  [ctx EXCEPT !.extraCertsIn = extraCertsIn]

\* Variant of OSSL_CMP_HDR_check_implicitConfirm that finds no
\* implicitConfirm
OSSL_CMP_HDR_check_implicitConfirm_never(msg) == FALSE

\* OSSL_CMP_HDR_check_implicitConfirm(hdr)
OSSL_CMP_HDR_check_implicitConfirm(msg) == msg.implicitConfirm

\* Variant of the pre-decision that compares with the client key although a
\* new key is set
newClCert_fail_info_pkey(ctx) ==
  IF ~X509_check_private_key(ctx.newClCert, ctx.pkey)
    THEN incorrectData ELSE 0

\* cert_response: the pre-decision on the new certificate, which must fit
\* the private key the request was made for
newClCert_fail_info(ctx) ==
  IF ~X509_check_private_key(ctx.newClCert,
                             IF ctx.newPkey # NIL THEN ctx.newPkey
                             ELSE ctx.pkey)
    THEN incorrectData ELSE 0

\* cert_response(ctx, rid, resp, not_received) up to the point where it
\* returns or blocks in the transfer of a pollReq or certConf:
\*   [next, ok, ctx, errs, msg, hn, rid, fail_info, crt]
\*   next  "ret" (returned ok), "poll" or "certconf" (msg is in transfer)
\*   crt   the certificate taken from the response (NIL if none)
cert_response(ctx, rid0, resp, not_received, rand_tid, rand_nonce) ==
  LET crepmsg == resp.response
      ret(ok, c, e, crt) ==
        [next |-> "ret", ok |-> ok, ctx |-> c, errs |-> e, msg |-> NIL,
         hn |-> NULL, rid |-> rid0, fail_info |-> 0, crt |-> crt]
      \* the end of cert_response after the certificate has been stored
      fin(rid, fail_info, crt, r, c, e, h) ==
        [next |-> "ret", ok |-> (fail_info = 0 /\ r = 1), ctx |-> c,
         errs |-> IF fail_info # 0
                    THEN Append(e, "CERTIFICATE_NOT_ACCEPTED") ELSE e,
         msg |-> NIL, hn |-> h, rid |-> rid, fail_info |-> fail_info,
         crt |-> crt]
      \* cc: the result of OSSL_CMP_certConf_new in CMP_exchange_certConf
      confirming(rid, fail_info, crt, cc) ==
        IF cc.ok
          THEN [next |-> "certconf", ok |-> TRUE, ctx |-> cc.ctx,
                errs |-> << >>, msg |-> cc.msg, hn |-> cc.hn,
                rid |-> rid, fail_info |-> fail_info, crt |-> crt]
          ELSE fin(rid, fail_info, crt, 0, cc.ctx, cc.errs, cc.hn)
      \* fail_info: as decided by the key check and the callback
      decided(rid, c5, crt, fail_info) ==
        IF ~c5.disableConfirm /\ ~OSSL_CMP_HDR_check_implicitConfirm(resp)
          THEN confirming(rid, fail_info, crt,
                 OSSL_CMP_certConf_new(c5, fail_info, rand_tid, rand_nonce))
          ELSE fin(rid, fail_info, crt, 1, c5, << >>, NULL)
      \* c5: the context with newClCert, caPubs and extraCertsIn stored
      stored(rid, c5, crt) ==
        LET fi0 == newClCert_fail_info(c5)
        IN decided(rid, c5, crt,
                   IF c5.certConf_cb # NIL
                     THEN certConf_cb(c5, c5.newClCert, fi0) ELSE fi0)
      \* g: the result of get_cert_status
      certified(rid, c, g) ==
        LET c3 == [c EXCEPT !.newClCert = g.crt]
        IN IF g.crt = NIL
             THEN ret(FALSE, c3, g.errs, NIL)
             ELSE stored(rid,
                    CMP_CTX_set1_extraCertsIn(
                      IF resp.caPubs # << >>
                        THEN CMP_CTX_set1_caPubs(c3, resp.caPubs) ELSE c3,
                      resp.extraCerts),
                    g.crt)
      \* s: the result of save_statusInfo
      saved(rid, crep, s) ==
        IF ~s.ok
          THEN ret(FALSE, s.ctx, << >>, NIL)
          ELSE certified(rid, s.ctx, get_cert_status(s.ctx, resp.type, crep))
      \* preq: the result of OSSL_CMP_pollReq_new in pollForResponse
      polling(rid, preq) ==
        IF preq.ok
          THEN [next |-> "poll", ok |-> TRUE, ctx |-> preq.ctx,
                errs |-> << >>, msg |-> preq.msg, hn |-> preq.hn,
                rid |-> rid, fail_info |-> 0, crt |-> NIL]
          ELSE [next |-> "ret", ok |-> FALSE, ctx |-> preq.ctx,
                errs |-> Append(preq.errs, not_received), msg |-> NIL,
                hn |-> preq.hn, rid |-> rid, fail_info |-> 0,
                crt |-> NIL]
      \* crep: the CertResponse found
      found(crep, rid) ==
        IF rid = -1
          THEN ret(FALSE, ctx, <<"BAD_REQUEST_ID">>, NIL)
        ELSE IF crep.status = OSSL_CMP_PKISTATUS_waiting
          THEN polling(rid,
                       OSSL_CMP_pollReq_new(ctx, rid, rand_tid, rand_nonce))
        ELSE saved(rid, crep, save_statusInfo(ctx, crep))
      \* i: the index of the CertResponse, 0 if there is none
      lookup(i) ==
        IF Len(crepmsg) > 1
          THEN ret(FALSE, ctx, <<"MULTIPLE_RESPONSES_NOT_SUPPORTED">>, NIL)
        ELSE IF i = 0
          THEN ret(FALSE, ctx, <<"CERTRESPONSE_NOT_FOUND">>, NIL)
        ELSE found(crepmsg[i],
                   IF rid0 = -1 THEN crepmsg[i].certReqId ELSE rid0)
  IN lookup(CMP_CERTREPMESSAGE_get0_certResponse(crepmsg, rid0))

(***************************************************************************)
(* State                                                                   *)
(***************************************************************************)
VARIABLES
  ctx,      \* the OSSL_CMP_CTX
  pc,       \* "new", "idle", or where a session is blocked in transfer_cb:
            \* "certreq", "poll", "certconf"
  ses,      \* locals of do_certreq_seq / cert_response of the running session
  req,      \* the request handed to transfer_cb (NoMsg when none)
  result,   \* local `result` of do_certreq_seq with the errors the session
            \* raised: "pending" while it runs, then what it returns
  rcvd,     \* the last response given to OSSL_CMP_MSG_check_received, as
            \* far as the properties below look at it, and the outcome
  lastHdrNonce, \* senderNonce of the last header OSSL_CMP_HDR_init built
  lastIn,   \* senderNonce of the last message OSSL_CMP_MSG_check_received
            \* accepted
  now       \* what time(NULL) returns, in seconds

vars == <<ctx, pc, ses, req, result, rcvd, lastHdrNonce, lastIn, now>>

NoMsg == [type |-> -1]

\* CMP_CTX_init(ctx)
CMP_CTX_init ==
  [referenceValue |-> NIL, secretValue |-> NIL, srvCert |-> NIL,
   validatedSrvCert |-> NIL, clCert |-> NIL, p10CSR |-> FALSE,
   subjectName |-> NIL, extraCertsIn |-> << >>, caPubs |-> << >>,
   newClCert |-> NIL, expected_sender |-> NIL, transactionID |-> NULL,
   recipNonce |-> NULL, last_senderNonce |-> NULL,
   pkey |-> NIL, newPkey |-> NIL,
   permitTAInExtraCertsForIR |-> FALSE, implicitConfirm |-> FALSE,
   disableConfirm |-> FALSE, unprotectedSend |-> FALSE,
   unprotectedErrors |-> FALSE, ignore_keyusage |-> FALSE,
   lastPKIStatus |-> 0, failInfoCode |-> 0,
   certConf_cb |-> NIL, certConf_cb_arg |-> {},
   trusted_store |-> {}, untrusted_certs |-> << >>,
   extraCertsOut |-> << >>, oldCert |-> NIL,
   subjectAltNames |-> << >>,
   reqExtensions |-> [present |-> FALSE, elems |-> << >>],
   msgtimeout |-> 120, totaltimeout |-> 0, end_time |-> 0]

\* msgtimeout is ctx->msgtimeout as the transfer callback sees it, while
\* ctx.msgtimeout keeps the value send_receive_check restores afterwards
NoSes == [req_type |-> -1, rep_type |-> -1, rep_err |-> "", rid |-> 0,
          fail_info |-> 0, polls |-> 0, msgtimeout |-> 0]

NoRcvd == [type |-> -1, nresp |-> 0, status |-> ABSENT, prot |-> "",
           pvno_ok |-> TRUE, had_tid |-> FALSE, tid_ok |-> TRUE,
           had_lsn |-> FALSE, nonce_ok |-> TRUE, ret |-> -1, reason |-> "",
           first |-> "", crt |-> NIL, alg |-> "", sender |-> NIL,
           scrt |-> NIL, via |-> "", pathok |-> FALSE, cands |-> << >>,
           pathset |-> {}, sigset |-> {}, kid |-> NULL, key |-> NIL,
           ic |-> FALSE, stage |-> "", req_type |-> -1, rep_type |-> -1,
           rid |-> 0, crid |-> ABSENT, passed |-> FALSE, after |-> ABSENT,
           polled |-> FALSE, changed |-> "", failInfo |-> ABSENT]

NoResult == [ret |-> "none", cert |-> NIL, errs |-> << >>]

Init ==
  /\ ctx = CMP_CTX_init
  /\ pc = "new"
  /\ ses = NoSes
  /\ req = NoMsg
  /\ result = NoResult
  /\ rcvd = NoRcvd
  /\ lastHdrNonce = NULL
  /\ lastIn = NULL
  /\ now = 0

(***************************************************************************)
(* Set-up of the context by the application                                *)
(***************************************************************************)
\* What an application sets between CMP_CTX_init and its first session with
\* OSSL_CMP_CTX_set1_referenceValue, _set1_secretValue, _set0_pkey,
\* _set0_newPkey, _set1_subjectName, _set1_p10CSR, _set_option and
\* _set_certConf_cb: credentials for PBMAC protection, then at most one
\* option or callback; or the new key left out; or the secret left out
PBMCredentials ==
  [referenceValue |-> "ref", secretValue |-> "sec", pkey |-> "kOld",
   newPkey |-> "kNew", subjectName |-> "ee", p10CSR |-> TRUE]

SessionOptions ==
  { [unprotectedErrors |-> FALSE], [unprotectedErrors |-> TRUE],
    [disableConfirm |-> TRUE],
    [certConf_cb |-> "OSSL_CMP_certConf_cb", certConf_cb_arg |-> {"R"}],
    [certConf_cb |-> "accept"], [certConf_cb |-> "reject"] }

SessionProfiles ==
  { opt @@ PBMCredentials : opt \in SessionOptions }
  \cup { [PBMCredentials EXCEPT !.pkey = "kNew", !.newPkey = NIL],
         [PBMCredentials EXCEPT !.secretValue = NIL] }

\* The setters store their argument in the field of the same name
Configure(profile) ==
  /\ pc = "new"
  /\ ctx' = profile @@ ctx
  /\ pc' = "idle"
  /\ UNCHANGED <<ses, req, result, rcvd, lastHdrNonce, lastIn, now>>

(***************************************************************************)
(* Responses the transfer callback may deliver                             *)
(***************************************************************************)
WrongOctet(x) == IF x = 1 THEN MaxOctet ELSE 1

\* Header and protection of a response to the request last sent with c.
\* A response is right in a field when it echoes the transactionID and the
\* senderNonce of the request, has pvno 2, carries a senderNonce and a
\* PBMAC under the shared secret.
Headers(c) ==
  { [pvno |-> pv, transactionID |-> t, recipNonce |-> r, senderNonce |-> s,
     protectionAlg |-> p.alg, protKey |-> p.key]
      : pv \in {OSSL_CMP_PVNO, OSSL_CMP_PVNO + 1},
        t \in {c.transactionID, NULL, WrongOctet(c.transactionID)},
        r \in {c.last_senderNonce, NULL, WrongOctet(c.last_senderNonce)},
        s \in Octets \cup {NULL},
        p \in {[alg |-> "pbm", key |-> c.secretValue],
               [alg |-> "pbm", key |-> "bad"],
               [alg |-> "none", key |-> NIL]} }

Faults(c, h) ==
  {f \in {"pvno", "tid", "rn", "sn", "prot"} :
     \/ f = "pvno" /\ h.pvno # OSSL_CMP_PVNO
     \/ f = "tid" /\ h.transactionID # c.transactionID
     \/ f = "rn" /\ h.recipNonce # c.last_senderNonce
     \/ f = "sn" /\ h.senderNonce = NULL
     \/ f = "prot" /\ ~(h.protectionAlg = "pbm" /\ h.protKey = c.secretValue)}

\* The message m with the protection bits its sender has computed with the
\* key protKey, if any
Sealed(m) ==
  [protection |-> IF m.protKey = NIL THEN NoProtection
                  ELSE [key |-> m.protKey, data |-> ProtectedPart(m)]] @@ m

BaseBody ==
  [type |-> -1, sender |-> "srv", senderKID |-> NULL, extraCerts |-> << >>,
   caPubs |-> << >>, implicitConfirm |-> FALSE, response |-> << >>,
   status |-> ABSENT, pollRep |-> << >>]

CertResponse(rid, st, crt) ==
  [certReqId |-> rid, status |-> st, cert |-> crt, failInfo |-> ABSENT]

CertRep(t, resp, ic) ==
  [BaseBody EXCEPT !.type = t, !.response = resp, !.implicitConfirm = ic]

PollRep(prc) == [BaseBody EXCEPT !.type = OSSL_CMP_PKIBODY_POLLREP,
                                 !.pollRep = prc]

PKIConf == [BaseBody EXCEPT !.type = OSSL_CMP_PKIBODY_PKICONF]

\* Bodies a server may answer with while the client waits for body type t
Bodies(t) ==
  LET rej == CertResponse(OSSL_CMP_CERTREQID, OSSL_CMP_PKISTATUS_rejection, NIL)
  IN
  { CertRep(t, <<CertResponse(OSSL_CMP_CERTREQID, st, crt)>>, FALSE)
      : st \in {OSSL_CMP_PKISTATUS_accepted}, crt \in {"N1", "N3", NIL} }
  \cup
  { CertRep(t, <<CertResponse(OSSL_CMP_CERTREQID, st, "N1")>>, FALSE)
      : st \in {OSSL_CMP_PKISTATUS_grantedWithMods,
                OSSL_CMP_PKISTATUS_revocationWarning,
                OSSL_CMP_PKISTATUS_revocationNotification,
                OSSL_CMP_PKISTATUS_keyUpdateWarning} }
  \cup
  { CertRep(t, <<CertResponse(OSSL_CMP_CERTREQID,
                              OSSL_CMP_PKISTATUS_waiting, NIL)>>, FALSE),
    CertRep(t, <<rej>>, FALSE),
    CertRep(t, <<rej, rej>>, FALSE),
    CertRep(t, << >>, FALSE),
    CertRep(t, <<CertResponse(OSSL_CMP_CERTREQID,
                              OSSL_CMP_PKISTATUS_accepted, "N1")>>, TRUE),
    CertRep(IF t = OSSL_CMP_PKIBODY_IP THEN OSSL_CMP_PKIBODY_CP
            ELSE OSSL_CMP_PKIBODY_IP,
            <<CertResponse(OSSL_CMP_CERTREQID,
                           OSSL_CMP_PKISTATUS_accepted, "N1")>>, FALSE),
    PKIConf,
    [BaseBody EXCEPT !.type = OSSL_CMP_PKIBODY_ERROR],
    [BaseBody EXCEPT !.type = OSSL_CMP_PKIBODY_RP,
                     !.status = OSSL_CMP_PKISTATUS_rejection],
    [BaseBody EXCEPT !.type = OSSL_CMP_PKIBODY_RP,
                     !.status = OSSL_CMP_PKISTATUS_accepted],
    PollRep(<<[certReqId |-> OSSL_CMP_CERTREQID, checkAfter |-> 0]>>),
    PollRep(<<[certReqId |-> OSSL_CMP_CERTREQID, checkAfter |-> -1]>>) }

\* The responses offered to a session that awaits body type t, of which
\* `usual` is the ordinary instance: every body under a right header and
\* under each protection fault, and the usual body under every header with
\* at most two faults.
Responses(c, t, usual) ==
  { Sealed(h @@ b)
      : h \in {g \in Headers(c) : /\ Faults(c, g) \subseteq {"prot"}
                                  /\ g.senderNonce = 1},
        b \in Bodies(t) }
  \cup
  { Sealed(h @@ usual) : h \in {g \in Headers(c) :
                          \/ Faults(c, g) = {}
                          \/ /\ Cardinality(Faults(c, g)) <= 2
                             /\ g.senderNonce \in {NULL, 1}} }

TransferErrs == {"READ_TIMEOUT", "ERROR_TRANSFERRING_OUT"}

(***************************************************************************)
(* OSSL_CMP_exec_IR_ses, _CR_ses, _KUR_ses, _P10CR_ses                     *)
(***************************************************************************)
\* The arguments OSSL_CMP_exec_*_ses pass to do_certreq_seq
ExecArgs ==
  { [req_type |-> OSSL_CMP_PKIBODY_IR, req_err |-> "ERROR_CREATING_IR",
     rep_type |-> OSSL_CMP_PKIBODY_IP, rep_err |-> "IP_NOT_RECEIVED"],
    [req_type |-> OSSL_CMP_PKIBODY_CR, req_err |-> "ERROR_CREATING_CR",
     rep_type |-> OSSL_CMP_PKIBODY_CP, rep_err |-> "CP_NOT_RECEIVED"],
    [req_type |-> OSSL_CMP_PKIBODY_KUR, req_err |-> "ERROR_CREATING_KUR",
     rep_type |-> OSSL_CMP_PKIBODY_KUP, rep_err |-> "KUP_NOT_RECEIVED"],
    [req_type |-> OSSL_CMP_PKIBODY_P10CR, req_err |-> "ERROR_CREATING_P10CR",
     rep_type |-> OSSL_CMP_PKIBODY_CP, rep_err |-> "CP_NOT_RECEIVED"] }

\* c with the extraCerts of m in its untrusted pool, as
\* OSSL_CMP_MSG_check_received has it when it validates the protection
WithExtraCerts(c, m) ==
  [c EXCEPT !.untrusted_certs = sk_prepend1_certs(@, m.extraCerts)]

\* The candidates for the sender certificate of a signed response m
Candidates(c, m) ==
  IF m.protectionAlg = "sig"
    THEN find_server_cert(c.trusted_store,
                          WithExtraCerts(c, m).untrusted_certs, m)
    ELSE << >>

\* What the properties look at of a response m checked with context c, where
\* src is the result of send_receive_check and chk that of
\* OSSL_CMP_MSG_check_received:
\*   scrt, via   as OSSL_CMP_MSG_check_received gave them
\*   pathok      scrt has a valid path to the trust store
\*   cands       the candidates in search order
\*   pathset     the candidates with a valid path to the trust store
\*   sigset      the candidates whose key verifies the signature of m
\*   kid, key    senderKID of m and the key m was signed with
\*   ic          m carries implicitConfirm
\*   stage       the transfer the session was blocked in
\*   req_type, rep_type, rid   the locals of the session at that point
\*   crid        certReqId of the first CertResponse of m
\*   passed      send_receive_check returned 1
\*   after       checkAfter of the PollRep of m for the certReqId of the session,
\*               if m is a pollRep with this one PollRep
\*   polled      m is a pollRep with this one PollRep
\*   failInfo    failInfo of the first CertResponse of m
Observe(c, m, src) ==
  LET chk == src.chk IN
  [type     |-> m.type,
   nresp    |-> Len(m.response),
   status   |-> IF m.type = OSSL_CMP_PKIBODY_RP THEN m.status
                ELSE IF Len(m.response) >= 1 THEN m.response[1].status
                ELSE ABSENT,
   prot     |-> chk.prot,
   pvno_ok  |-> m.pvno = OSSL_CMP_PVNO,
   had_tid  |-> c.transactionID # NULL,
   tid_ok   |-> m.transactionID # NULL /\ m.transactionID = c.transactionID,
   had_lsn  |-> c.last_senderNonce # NULL,
   nonce_ok |-> m.recipNonce # NULL /\ m.recipNonce = c.last_senderNonce,
   ret      |-> chk.ret,
   reason   |-> IF chk.errs = << >> THEN "" ELSE chk.errs[Len(chk.errs)],
   first    |-> IF chk.errs = << >> THEN "" ELSE chk.errs[1],
   crt      |-> NIL,
   alg      |-> m.protectionAlg,
   sender   |-> m.sender,
   scrt     |-> chk.scrt,
   via      |-> chk.via,
   pathok   |-> OSSL_CMP_validate_cert_path(WithExtraCerts(c, m),
                                            c.trusted_store, chk.scrt),
   cands    |-> Candidates(c, m),
   pathset  |-> {x \in Range(Candidates(c, m)) :
                   OSSL_CMP_validate_cert_path(WithExtraCerts(c, m),
                                               c.trusted_store, x)},
   sigset   |-> {x \in Range(Candidates(c, m)) :
                   CMP_verify_signature(c, m, x)},
   kid      |-> m.senderKID,
   key      |-> m.protKey,
   ic       |-> m.implicitConfirm,
   stage    |-> pc,
   req_type |-> ses.req_type,
   rep_type |-> ses.rep_type,
   rid      |-> ses.rid,
   crid     |-> IF Len(m.response) >= 1 THEN m.response[1].certReqId
                ELSE ABSENT,
   passed   |-> src.ok,
   after    |-> IF m.type = OSSL_CMP_PKIBODY_POLLREP /\ Len(m.pollRep) = 1
                   /\ CMP_POLLREPCONTENT_pollRep_get0(m.pollRep, ses.rid) # 0
                  THEN m.pollRep[1].checkAfter ELSE ABSENT,
   polled   |-> /\ m.type = OSSL_CMP_PKIBODY_POLLREP /\ Len(m.pollRep) = 1
                /\ CMP_POLLREPCONTENT_pollRep_get0(m.pollRep, ses.rid) # 0,
   failInfo |-> IF Len(m.response) >= 1 THEN m.response[1].failInfo
                ELSE ABSENT]

\* the session is over: do_certreq_seq is at `err:` with its result
Return(c, ok, errs) ==
  /\ ctx' = c
  /\ pc' = "ret"
  /\ ses' = NoSes
  /\ req' = NoMsg
  /\ result' = [ret  |-> IF ok THEN "cert" ELSE "null",
                cert |-> IF ok THEN c.newClCert ELSE NIL,
                errs |-> errs]

\* the session blocks in transfer_cb with the request r.msg
Send(r, stage, s) ==
  /\ ctx' = r.ctx
  /\ pc' = stage
  /\ ses' = s
  /\ req' = r.msg
  /\ result' = [ret |-> "pending", cert |-> NIL, errs |-> << >>]

\* Variant of the test of checkAfter that lets every value pass
negative_checkAfter_never(check_after) == FALSE

\* pollForResponse refuses the checkAfter of a pollRep
negative_checkAfter(check_after) == check_after < 0

\* send_receive_check with the request r.msg at the given time, up to the
\* transfer: it gives up with TOTAL_TIMEOUT, which ends the session with
\* the errors timeout_errs, or blocks in transfer_cb
Transfer(r, stage, s, expected_type, time, timeout_errs) ==
  \E t \in {send_receive_check_timeout(r.ctx, expected_type, time)} :
     IF t.ok
       THEN Send(r, stage, [s EXCEPT !.msgtimeout = t.msgtimeout])
       ELSE Return(r.ctx, FALSE, timeout_errs)

\* do_certreq_seq up to the transfer of the request
Exec(a, rand_tid, rand_nonce) ==
  /\ pc \in {"new", "idle"}
  /\ \E r \in {OSSL_CMP_certreq_new(
                  [ctx EXCEPT !.end_time = now + ctx.totaltimeout,
                              !.lastPKIStatus = -1],
                  a.req_type, a.req_err, rand_tid, rand_nonce)} :
       /\ IF r.ok
            THEN Transfer(r, "certreq",
                   [req_type |-> a.req_type, rep_type |-> a.rep_type,
                    rep_err |-> a.rep_err,
                    rid |-> IF a.req_type = OSSL_CMP_PKIBODY_P10CR THEN -1
                            ELSE OSSL_CMP_CERTREQID,
                    fail_info |-> 0, polls |-> 0, msgtimeout |-> 0],
                   a.rep_type, now, <<"TOTAL_TIMEOUT">>)
            ELSE Return(r.ctx, FALSE, r.errs)
       /\ lastHdrNonce' = IF r.hn # NULL THEN r.hn ELSE lastHdrNonce
  /\ rcvd' = NoRcvd
  /\ UNCHANGED <<lastIn, now>>

\* RAND_bytes for a transactionID is called only while the context has none
TidDraws == IF ctx.transactionID = NULL THEN Octets ELSE {NULL}

\* cert_response from its start, or from `retry`, with the response m; the
\* senderNonce is drawn only if a pollReq or certConf header is built
CertResponseStep(c, m, obs) ==
  \E rand_nonce \in Octets :
    \E cr \in {cert_response(c, ses.rid, m, ses.rep_err, NULL, rand_nonce)} :
       /\ cr.hn = NULL => rand_nonce = 1
       /\ IF cr.next = "ret"
            THEN Return(cr.ctx, cr.ok, cr.errs)
            ELSE /\ cr.next = "poll" => ses.polls < MaxPolls
                 /\ Transfer(cr, cr.next,
                      [ses EXCEPT !.rid = cr.rid,
                                  !.fail_info = cr.fail_info,
                                  !.polls = IF cr.next = "poll"
                                              THEN @ + 1 ELSE @],
                      IF cr.next = "poll" THEN OSSL_CMP_PKIBODY_POLLREP
                      ELSE OSSL_CMP_PKIBODY_PKICONF,
                      now,
                      IF cr.next = "poll"
                        THEN <<"TOTAL_TIMEOUT", ses.rep_err>>
                      ELSE IF cr.fail_info # 0
                        THEN <<"TOTAL_TIMEOUT", "CERTIFICATE_NOT_ACCEPTED">>
                      ELSE <<"TOTAL_TIMEOUT">>)
       /\ rcvd' = [obs EXCEPT !.crt = cr.crt]
       /\ lastHdrNonce' = IF cr.hn # NULL THEN cr.hn ELSE lastHdrNonce

\* transfer_cb returns to send_receive_check in do_certreq_seq; the session
\* runs on to its end or to the next transfer
RecvCertRep(err, m) ==
  /\ pc = "certreq"
  /\ UNCHANGED now
  /\ \E src \in {send_receive_check(ctx, err, m, ses.rep_type, ses.rep_err)} :
       IF err # "ok"
         THEN /\ Return(src.ctx, FALSE, src.errs)
              /\ rcvd' = NoRcvd
              /\ UNCHANGED <<lastHdrNonce, lastIn>>
         ELSE /\ lastIn' = IF src.chk.ret >= 0 THEN m.senderNonce ELSE lastIn
              /\ \E obs \in {Observe(ctx, m, src)} :
                   IF ~src.ok
                     THEN /\ Return(src.ctx, FALSE, src.errs)
                          /\ rcvd' = obs
                          /\ UNCHANGED lastHdrNonce
                     ELSE CertResponseStep(src.ctx, m, obs)

\* transfer_cb returns to send_receive_check in pollForResponse; after a
\* pollRep the session sleeps, which takes the time asked for, and goes on
\* to the transfer of the next pollReq
RecvPollRep(err, m) ==
  LET \* pollForResponse failed: cert_response adds not_received
      fail(c, e) == Return(c, FALSE, Append(e, ses.rep_err))
      \* preq: the result of OSSL_CMP_pollReq_new for the next round, built
      \* at the given time
      again(preq, time) ==
        /\ lastHdrNonce' = IF preq.hn # NULL THEN preq.hn ELSE lastHdrNonce
        /\ now' = time
        /\ IF preq.ok
             THEN /\ ses.polls < MaxPolls
                  /\ Transfer(preq, "poll", [ses EXCEPT !.polls = @ + 1],
                              OSSL_CMP_PKIBODY_POLLREP, time,
                              <<"TOTAL_TIMEOUT", ses.rep_err>>)
             ELSE fail(preq.ctx, preq.errs)
      \* sl: how long to sleep, or that the total timeout is reached
      slept(c, sl) ==
        IF ~sl.ok
          THEN /\ fail(c, <<"TOTAL_TIMEOUT">>)
               /\ UNCHANGED <<lastHdrNonce, now>>
        ELSE /\ now + sl.check_after <= MaxTime
             /\ \E rand_nonce \in Octets :
                  \E preq \in {OSSL_CMP_pollReq_new(c, ses.rid, NULL,
                                                    rand_nonce)} :
                     again(preq, now + sl.check_after)
      \* a pollRep has passed send_receive_check; i is the index of the
      \* PollRep for the certReqId, 0 if there is none
      pollRep(c, prc, i) ==
        IF Len(prc) > 1
          THEN /\ fail(c, <<"MULTIPLE_RESPONSES_NOT_SUPPORTED">>)
               /\ UNCHANGED <<lastHdrNonce, now>>
        ELSE IF i = 0
          THEN /\ fail(c, <<"CERTRESPONSE_NOT_FOUND">>)
               /\ UNCHANGED <<lastHdrNonce, now>>
        ELSE IF negative_checkAfter(prc[i].checkAfter)
          THEN /\ fail(c, <<"RECEIVED_NEGATIVE_CHECKAFTER_IN_POLLREP">>)
               /\ UNCHANGED <<lastHdrNonce, now>>
        ELSE slept(c, pollForResponse_sleep(c, prc[i].checkAfter, now))
  IN /\ pc = "poll"
     /\ \E src \in {send_receive_check(ctx, err, m, OSSL_CMP_PKIBODY_POLLREP,
                                       "POLLREP_NOT_RECEIVED")} :
          IF err # "ok"
            THEN /\ fail(src.ctx, src.errs)
                 /\ rcvd' = NoRcvd
                 /\ UNCHANGED <<lastHdrNonce, lastIn, now>>
            ELSE /\ lastIn' = IF src.chk.ret >= 0 THEN m.senderNonce
                              ELSE lastIn
                 /\ \E obs \in {Observe(ctx, m, src)} :
                      IF ~src.ok
                        THEN /\ fail(src.ctx, src.errs)
                             /\ rcvd' = obs
                             /\ UNCHANGED <<lastHdrNonce, now>>
                      ELSE IF OSSL_CMP_MSG_get_bodytype(m)
                                = OSSL_CMP_PKIBODY_POLLREP
                        THEN /\ rcvd' = obs
                             /\ pollRep(src.ctx, m.pollRep,
                                  CMP_POLLREPCONTENT_pollRep_get0(m.pollRep,
                                                                  ses.rid))
                      ELSE /\ CertResponseStep(src.ctx, m, obs)
                           /\ UNCHANGED now

\* transfer_cb returns to send_receive_check in CMP_exchange_certConf;
\* cert_response runs to its end
RecvPKIConf(err, m) ==
  /\ pc = "certconf"
  /\ \E src \in {send_receive_check(ctx, err, m, OSSL_CMP_PKIBODY_PKICONF,
                                    "PKICONF_NOT_RECEIVED")} :
       /\ Return(src.ctx, src.ok /\ ses.fail_info = 0,
                 IF ses.fail_info # 0
                   THEN Append(src.errs, "CERTIFICATE_NOT_ACCEPTED")
                   ELSE src.errs)
       /\ IF err # "ok"
            THEN /\ rcvd' = NoRcvd
                 /\ UNCHANGED lastIn
            ELSE /\ rcvd' = Observe(ctx, m, src)
                 /\ lastIn' = IF src.chk.ret >= 0 THEN m.senderNonce
                              ELSE lastIn
  /\ UNCHANGED <<lastHdrNonce, now>>

\* do_certreq_seq at `err:` frees the request and the response and returns
\* the result to the application
Free ==
  /\ pc = "ret"
  /\ pc' = "idle"
  /\ rcvd' = NoRcvd
  /\ result' = NoResult
  /\ UNCHANGED <<ctx, ses, req, lastHdrNonce, lastIn, now>>

\* The usual answer to the request in transfer
Usual ==
  IF pc = "poll"
    THEN PollRep(<<[certReqId |-> OSSL_CMP_CERTREQID, checkAfter |-> 0]>>)
  ELSE IF pc = "certconf" THEN PKIConf
  ELSE CertRep(ses.rep_type,
               <<CertResponse(OSSL_CMP_CERTREQID,
                              OSSL_CMP_PKISTATUS_accepted, "N1")>>, FALSE)

Inbound == Responses(ctx, ses.rep_type, Usual)

Next ==
  \/ \E p \in SessionProfiles : Configure(p)
  \/ \E a \in ExecArgs, t \in TidDraws, n \in Octets : Exec(a, t, n)
  \/ pc = "certreq" /\ \E m \in Inbound : RecvCertRep("ok", m)
  \/ \E e \in TransferErrs : RecvCertRep(e, NoMsg)
  \/ pc = "poll" /\ \E m \in Inbound : RecvPollRep("ok", m)
  \/ \E e \in TransferErrs : RecvPollRep(e, NoMsg)
  \/ pc = "certconf" /\ \E m \in Inbound : RecvPKIConf("ok", m)
  \/ \E e \in TransferErrs : RecvPKIConf(e, NoMsg)
  \/ Free

Spec == Init /\ [][Next]_vars

(***************************************************************************)
(* Sessions with a server that protects its responses by signature         *)
(***************************************************************************)
\* The context of a client that protects its requests with the shared
\* secret and trusts root R (OSSL_CMP_CTX_set0_trustedStore), with at most
\* one of: the 3GPP option, a pinned server certificate
\* (OSSL_CMP_CTX_set1_srvCert), an expected sender
\* (OSSL_CMP_CTX_set1_expected_sender), the option to ignore the KeyUsage
VerifierOptions ==
  { [trusted_store |-> {"R"}],
    [trusted_store |-> {"R"}, permitTAInExtraCertsForIR |-> TRUE],
    [trusted_store |-> {"R"}, srvCert |-> "S1"],
    [trusted_store |-> {"R"}, srvCert |-> "SX"],
    [trusted_store |-> {"R"}, srvCert |-> "SK"],
    [trusted_store |-> {"R"}, expected_sender |-> "srv"],
    [trusted_store |-> {"R"}, ignore_keyusage |-> TRUE] }

VerifierProfiles == { opt @@ PBMCredentials : opt \in VerifierOptions }

\* How a server may sign and furnish a response: the signing key, the
\* sender name, the senderKID and the extraCerts
Signers ==
  { [protKey |-> "kS1", sender |-> "srv", senderKID |-> NULL,
     extraCerts |-> <<"S1", "S2", "E">>],
    [protKey |-> "kS2", sender |-> "srv", senderKID |-> NULL,
     extraCerts |-> <<"S1", "S2", "E">>],
    [protKey |-> "kS2", sender |-> "srv", senderKID |-> 2,
     extraCerts |-> <<"S1", "S2", "E">>],
    [protKey |-> "kE", sender |-> "eve", senderKID |-> NULL,
     extraCerts |-> <<"S1", "S2", "E">>],
    [protKey |-> "kSX", sender |-> "srv", senderKID |-> NULL,
     extraCerts |-> <<"SX", "X">>],
    [protKey |-> "kSX", sender |-> "srv", senderKID |-> NULL,
     extraCerts |-> << >>],
    [protKey |-> "kS1", sender |-> "srv", senderKID |-> NULL,
     extraCerts |-> << >>],
    [protKey |-> "kS2", sender |-> "srv", senderKID |-> NULL,
     extraCerts |-> << >>],
    [protKey |-> "kSK", sender |-> "srv", senderKID |-> NULL,
     extraCerts |-> <<"SK">>],
    [protKey |-> "kE", sender |-> "eve", senderKID |-> NULL,
     extraCerts |-> << >>] }

\* Signed responses to the request last sent with c: the header answers
\* the request; the body is b
SignedResponses(c, bodies) ==
  { Sealed([pvno |-> OSSL_CMP_PVNO, transactionID |-> c.transactionID,
            recipNonce |-> c.last_senderNonce, senderNonce |-> 1,
            protectionAlg |-> "sig"] @@ sg @@ b)
      : sg \in Signers, b \in bodies }

\* A certificate response grants a certificate issued under R or under X
SignedInbound ==
  SignedResponses(ctx,
    IF pc = "certconf" THEN {PKIConf}
    ELSE { CertRep(ses.rep_type,
                   <<CertResponse(OSSL_CMP_CERTREQID,
                                  OSSL_CMP_PKISTATUS_accepted, crt)>>, FALSE)
             : crt \in {"N1", "N2"} })

VerifierExecArgs ==
  {a \in ExecArgs : a.req_type \in {OSSL_CMP_PKIBODY_IR, OSSL_CMP_PKIBODY_CR}}

NextVfy ==
  \/ \E p \in VerifierProfiles : Configure(p)
  \/ \E a \in VerifierExecArgs, t \in TidDraws, n \in Octets : Exec(a, t, n)
  \/ pc = "certreq" /\ \E m \in SignedInbound : RecvCertRep("ok", m)
  \/ pc = "certconf" /\ \E m \in SignedInbound : RecvPKIConf("ok", m)
  \/ Free

SpecVfy == Init /\ [][NextVfy]_vars

(***************************************************************************)
(* Sessions under a total timeout, with a clock that advances              *)
(***************************************************************************)
\* The context of a client that protects its requests with the shared
\* secret, with the total timeout left at 0 or set with
\* OSSL_CMP_CTX_set_option(ctx, OSSL_CMP_CTX_OPT_TOTALTIMEOUT, TotalTimeout)
\* and the timeout per message left at 120 or, under a total timeout, set to
\* 0 or ShortMsgTimeout with OSSL_CMP_CTX_OPT_MSGTIMEOUT
TimedProfiles ==
  { [totaltimeout |-> t, msgtimeout |-> mt] @@ PBMCredentials
      : t \in {TotalTimeout},
        mt \in {0, ShortMsgTimeout, CMP_CTX_init.msgtimeout} }
  \cup { [totaltimeout |-> 0] @@ PBMCredentials }

\* A server that answers the request in transfer as RFC 4210 has it: it
\* grants the certificate, or asks the client to wait and answers a pollReq
\* with a pollRep that asks the client to come back at once, after one
\* second, or after the whole total timeout; it confirms a certConf
TimedBodies ==
  IF pc = "certconf" THEN {PKIConf}
  ELSE { CertRep(ses.rep_type,
                 <<CertResponse(OSSL_CMP_CERTREQID, st, crt)>>, FALSE)
           : st \in {OSSL_CMP_PKISTATUS_accepted}, crt \in {"N1"} }
       \cup
       { CertRep(ses.rep_type,
                 <<CertResponse(OSSL_CMP_CERTREQID,
                                OSSL_CMP_PKISTATUS_waiting, NIL)>>, FALSE) }
       \cup
       (IF pc = "poll"
          THEN { PollRep(<<[certReqId |-> OSSL_CMP_CERTREQID,
                            checkAfter |-> ca]>>)
                   : ca \in {0, 1, TotalTimeout} }
          ELSE {})

TimedInbound ==
  { Sealed(h @@ b) : h \in {g \in Headers(ctx) : /\ Faults(ctx, g) = {}
                                                 /\ g.senderNonce = 1},
                     b \in TimedBodies }

TimedExecArgs == {a \in ExecArgs : a.req_type = OSSL_CMP_PKIBODY_IR}

\* A second passes, whatever the client is doing or waiting for
Tick ==
  /\ now < MaxTime
  /\ now' = now + 1
  /\ UNCHANGED <<ctx, pc, ses, req, result, rcvd, lastHdrNonce, lastIn>>

NextTime ==
  \/ \E p \in TimedProfiles : Configure(p)
  \/ \E a \in TimedExecArgs, t \in TidDraws, n \in Octets : Exec(a, t, n)
  \/ pc = "certreq" /\ \E m \in TimedInbound : RecvCertRep("ok", m)
  \/ pc = "poll" /\ \E m \in TimedInbound : RecvPollRep("ok", m)
  \/ pc = "certconf" /\ \E m \in TimedInbound : RecvPKIConf("ok", m)
  \/ Free
  \/ Tick

SpecTime == Init /\ [][NextTime]_vars

(***************************************************************************)
(* Protection of single messages.  The context is set up by its setters,   *)
(* a request is built or loaded into req, protected, possibly changed on   *)
(* its way, and validated with the credentials of the context.  pc is      *)
(*   "new"        no message at hand                                       *)
(*   "built"      req is at hand, not protected by this context            *)
(*   "protected"  req is as OSSL_CMP_MSG_protect has left it               *)
(*   "tampered"   req was protected and then changed                       *)
(*   "checked"    req has been given to the verification                   *)
(***************************************************************************)
\* CMP_CTX_set1_secretValue: sets or clears the secret
CMP_CTX_set1_secretValue(c, sec) == [c EXCEPT !.secretValue = sec]

\* CMP_CTX_set1_referenceValue: sets or clears the reference
CMP_CTX_set1_referenceValue(c, ref) == [c EXCEPT !.referenceValue = ref]

\* CMP_CTX_set1_clCert: NULL is refused
CMP_CTX_set1_clCert(c, cert) ==
  IF cert = NIL THEN c ELSE [c EXCEPT !.clCert = cert]

\* CMP_CTX_set0_pkey: NULL is refused
CMP_CTX_set0_pkey(c, pkey) ==
  IF pkey = NIL THEN c ELSE [c EXCEPT !.pkey = pkey]

\* CMP_CTX_set0_newPkey: NULL is refused
CMP_CTX_set0_newPkey(c, pkey) ==
  IF pkey = NIL THEN c ELSE [c EXCEPT !.newPkey = pkey]

\* CMP_CTX_set1_untrusted_certs
CMP_CTX_set1_untrusted_certs(c, certs) ==
  [c EXCEPT !.untrusted_certs =
     CMP_sk_X509_add1_certs(<< >>, certs, FALSE, TRUE)]

\* CMP_CTX_extraCertsOut_push1
CMP_CTX_extraCertsOut_push1(c, val) ==
  [c EXCEPT !.extraCertsOut = Append(@, val)]

\* CMP_CTX_set_option(ctx, CMP_CTX_OPT_UNPROTECTED_SEND, val)
CMP_CTX_set_option_UNPROTECTED_SEND(c, val) ==
  [c EXCEPT !.unprotectedSend = (val # 0)]

\* the certificates a client is given as its own
ClientCerts == {"N3", "C1"}

\* the key pairs a client is given
ClientKeys == {"kOld", "kNew"}

\* the pools of untrusted certificates a client is given
UntrustedPools == { << >>, <<"I", "R">> }

SetSecretValue ==
  /\ pc = "new"
  /\ \E sec \in {NIL, "sec"} : ctx' = CMP_CTX_set1_secretValue(ctx, sec)
  /\ UNCHANGED <<pc, ses, req, result, rcvd, lastHdrNonce, lastIn, now>>

SetReferenceValue ==
  /\ pc = "new"
  /\ \E ref \in {NIL, "ref"} : ctx' = CMP_CTX_set1_referenceValue(ctx, ref)
  /\ UNCHANGED <<pc, ses, req, result, rcvd, lastHdrNonce, lastIn, now>>

SetClCert ==
  /\ pc = "new"
  /\ \E cert \in ClientCerts \cup {NIL} : ctx' = CMP_CTX_set1_clCert(ctx, cert)
  /\ UNCHANGED <<pc, ses, req, result, rcvd, lastHdrNonce, lastIn, now>>

SetPkey ==
  /\ pc = "new"
  /\ \E pkey \in ClientKeys \cup {NIL} : ctx' = CMP_CTX_set0_pkey(ctx, pkey)
  /\ UNCHANGED <<pc, ses, req, result, rcvd, lastHdrNonce, lastIn, now>>

SetNewPkey ==
  /\ pc = "new"
  /\ \E pkey \in {NIL, "kNew"} : ctx' = CMP_CTX_set0_newPkey(ctx, pkey)
  /\ UNCHANGED <<pc, ses, req, result, rcvd, lastHdrNonce, lastIn, now>>

SetUntrustedCerts ==
  /\ pc = "new"
  /\ \E certs \in UntrustedPools :
       ctx' = CMP_CTX_set1_untrusted_certs(ctx, certs)
  /\ UNCHANGED <<pc, ses, req, result, rcvd, lastHdrNonce, lastIn, now>>

PushExtraCertsOut ==
  /\ pc = "new"
  /\ Len(ctx.extraCertsOut) < MaxExtraCertsOut
  /\ \E val \in {"S1"} : ctx' = CMP_CTX_extraCertsOut_push1(ctx, val)
  /\ UNCHANGED <<pc, ses, req, result, rcvd, lastHdrNonce, lastIn, now>>

SetUnprotectedSend ==
  /\ pc = "new"
  /\ \E val \in {0, 1} : ctx' = CMP_CTX_set_option_UNPROTECTED_SEND(ctx, val)
  /\ UNCHANGED <<pc, ses, req, result, rcvd, lastHdrNonce, lastIn, now>>

\* The requests of the client that are built here: OSSL_CMP_certreq_new
\* is called for an ir
RequestBuilders ==
  {OSSL_CMP_PKIBODY_IR, OSSL_CMP_PKIBODY_POLLREQ, OSSL_CMP_PKIBODY_CERTCONF,
   OSSL_CMP_PKIBODY_RR, OSSL_CMP_PKIBODY_GENM}

\* The builder of a request of the given type; the certificate to confirm
\* and the certificate to revoke are at hand when their builders are called

Builder(c, type, rand_tid, rand_nonce) ==
  IF type = OSSL_CMP_PKIBODY_POLLREQ
    THEN OSSL_CMP_pollReq_new(c, OSSL_CMP_CERTREQID, rand_tid, rand_nonce)
  ELSE IF type = OSSL_CMP_PKIBODY_CERTCONF
    THEN OSSL_CMP_certConf_new([c EXCEPT !.newClCert = "N1"], 0,
                               rand_tid, rand_nonce)
  ELSE IF type = OSSL_CMP_PKIBODY_RR
    THEN OSSL_CMP_rr_new([c EXCEPT !.oldCert = "N3"], rand_tid, rand_nonce)
  ELSE IF type = OSSL_CMP_PKIBODY_GENM
    THEN OSSL_CMP_genm_new(c, rand_tid, rand_nonce)
  ELSE OSSL_CMP_certreq_new(c, type, "ERROR_CREATING_IR", rand_tid, rand_nonce)

\* One of the request builders is called: the message it returns is at hand
Build(type, rand_tid, rand_nonce) ==
  /\ pc = "new"
  /\ \E b \in {Builder(ctx, type, rand_tid, rand_nonce)} :
       /\ ctx' = [b.ctx EXCEPT !.newClCert = ctx.newClCert,
                               !.oldCert = ctx.oldCert]
       /\ req' = IF b.ok THEN b.msg ELSE NoMsg
       /\ pc' = IF ~b.ok THEN "new"
                ELSE IF ctx.unprotectedSend THEN "built" ELSE "protected"
       /\ result' = [ret |-> IF b.ok THEN "msg" ELSE "null", cert |-> NIL,
                     errs |-> b.errs]
       /\ lastHdrNonce' = b.hn
  /\ rcvd' = NoRcvd
  /\ UNCHANGED <<ses, lastIn, now>>

\* The messages loaded from files: an unprotected ir without extraCerts and
\* one that has a certificate in its extraCerts
LoadedMessages ==
  { [type |-> OSSL_CMP_PKIBODY_IR, pvno |-> OSSL_CMP_PVNO, sender |-> "ee",
     transactionID |-> 1, senderNonce |-> 1, recipNonce |-> NULL,
     senderKID |-> NULL,
     body |-> [certReqId |-> OSSL_CMP_CERTREQID, implicitConfirm |-> FALSE],
     protectionAlg |-> "none", protKey |-> NIL,
     protection |-> NoProtection, extraCerts |-> ec]
      : ec \in { << >>, <<"S1">> } }

\* OSSL_CMP_MSG_load: a message is read from a file
Load(m) ==
  /\ pc = "new"
  /\ req' = m
  /\ pc' = "built"
  /\ result' = NoResult
  /\ rcvd' = NoRcvd
  /\ UNCHANGED <<ctx, ses, lastHdrNonce, lastIn, now>>

\* OSSL_CMP_MSG_protect is called for the message at hand
Protect ==
  /\ pc = "built"
  /\ \E p \in {OSSL_CMP_MSG_protect(ctx, req)} :
       /\ req' = p.msg
       /\ pc' = IF p.ok /\ ~ctx.unprotectedSend THEN "protected" ELSE "built"
       /\ result' = [ret |-> IF p.ok THEN "1" ELSE "0", cert |-> NIL,
                     errs |-> p.errs]
  /\ rcvd' = NoRcvd
  /\ UNCHANGED <<ctx, ses, lastHdrNonce, lastIn, now>>

\* what may be changed in a message on its way
Changes ==
  {"protection", "senderNonce", "recipNonce", "pvno", "body", "extraCerts"}

\* the message m with the part named by change altered
Changed(m, change) ==
  IF change = "protection"
    THEN [m EXCEPT !.protection = [@ EXCEPT !.key = "flipped"]]
  ELSE IF change = "senderNonce" THEN [m EXCEPT !.senderNonce = @ + 1]
  ELSE IF change = "recipNonce" THEN [m EXCEPT !.recipNonce = @ + 1]
  ELSE IF change = "pvno" THEN [m EXCEPT !.pvno = @ + 1]
  ELSE IF change = "body" THEN [m EXCEPT !.body = [altered |-> TRUE] @@ @]
  ELSE [m EXCEPT !.extraCerts = Append(@, "E")]

\* The protected message is changed on its way
Tamper(change) ==
  /\ pc = "protected"
  /\ req' = Changed(req, change)
  /\ pc' = "tampered"
  /\ rcvd' = [NoRcvd EXCEPT !.changed = change]
  /\ UNCHANGED <<ctx, ses, result, lastHdrNonce, lastIn, now>>

\* The message is verified with the credentials of the context that has
\* protected it: CMP_verify_PBMAC with the secret, CMP_verify_signature with
\* the client certificate
Verified(c, m) ==
  IF m.protectionAlg = "pbm" THEN CMP_verify_PBMAC(m, c.secretValue)
  ELSE IF m.protectionAlg = "sig" /\ c.clCert # NIL
    THEN CMP_verify_signature(c, m, c.clCert)
  ELSE FALSE

Validate ==
  /\ pc \in {"protected", "tampered"}
  /\ pc' = "checked"
  /\ rcvd' = [rcvd EXCEPT !.stage = "validate", !.alg = req.protectionAlg,
                          !.passed = Verified(ctx, req)]
  /\ UNCHANGED <<ctx, ses, req, result, lastHdrNonce, lastIn, now>>

\* OSSL_CMP_MSG_free
Drop ==
  /\ pc \in {"built", "protected", "tampered", "checked"}
  /\ pc' = "new"
  /\ req' = NoMsg
  /\ result' = NoResult
  /\ rcvd' = NoRcvd
  /\ UNCHANGED <<ctx, ses, lastHdrNonce, lastIn, now>>

NextProtect ==
  \/ SetSecretValue
  \/ SetReferenceValue
  \/ SetClCert
  \/ SetPkey
  \/ SetNewPkey
  \/ SetUntrustedCerts
  \/ PushExtraCertsOut
  \/ SetUnprotectedSend
  \/ \E type \in RequestBuilders : Build(type, MaxOctet, MaxOctet)
  \/ \E m \in LoadedMessages : Load(m)
  \/ Protect
  \/ \E change \in Changes : Tamper(change)
  \/ Validate
  \/ Drop

SpecProtect == Init /\ [][NextProtect]_vars

(***************************************************************************)
(* Properties of the received-message check and of sessions                *)
(***************************************************************************)
\* rcvd describes a response that OSSL_CMP_MSG_check_received was given
Checked == rcvd.type # -1

\* the session the response belonged to has failed without a certificate
SessionFailed ==
  pc = "ret" /\ result.ret = "null" /\ result.cert = NIL /\ rcvd.crt = NIL

ProtectionFailed ==
  /\ rcvd.prot # "valid"
  /\ rcvd.reason \in {"MISSING_PROTECTION", "ERROR_VALIDATING_PROTECTION"}

PvnoFailed == ~rcvd.pvno_ok /\ rcvd.reason = "UNEXPECTED_PVNO"

TransactionIDFailed ==
  rcvd.had_tid /\ ~rcvd.tid_ok /\ rcvd.reason = "TRANSACTIONID_UNMATCHED"

\* C1 as stated: with a last_senderNonce in the context, a response passes
\* the check only if its recipNonce is present and equal to it; any other
\* response makes the check return -1 with reason RECIPNONCE_UNMATCHED, the
\* session fail and no certificate be taken from the response.
C1_Original ==
  (Checked /\ rcvd.had_lsn /\ ~rcvd.nonce_ok) =>
     /\ rcvd.ret = -1
     /\ rcvd.reason = "RECIPNONCE_UNMATCHED"
     /\ SessionFailed

\* C1 (amended): with a last_senderNonce in the context, a response whose
\* recipNonce is absent or different makes the check return -1, the session
\* fail and no certificate be taken from it; the reason is
\* RECIPNONCE_UNMATCHED unless the protection, pvno or transactionID check,
\* which come first, has failed with its own reason, and it is
\* RECIPNONCE_UNMATCHED whenever protection, pvno and transactionID are right.
C1_RecipNonce ==
  (Checked /\ rcvd.had_lsn /\ ~rcvd.nonce_ok) =>
     /\ rcvd.ret = -1
     /\ \/ rcvd.reason = "RECIPNONCE_UNMATCHED"
        \/ ProtectionFailed \/ PvnoFailed \/ TransactionIDFailed
     /\ (rcvd.prot = "valid" /\ rcvd.pvno_ok /\ rcvd.tid_ok)
          => rcvd.reason = "RECIPNONCE_UNMATCHED"
     /\ SessionFailed

C1_Witness ==
  /\ Checked /\ rcvd.had_lsn /\ ~rcvd.nonce_ok
  /\ rcvd.reason = "RECIPNONCE_UNMATCHED"
  /\ pc = "ret" /\ ctx.last_senderNonce # NULL

\* C2 as stated: with a transactionID in the context, every accepted
\* response carries an equal transactionID, and a response with a different
\* or absent one makes the check return -1 with reason
\* TRANSACTIONID_UNMATCHED.
C2_Original ==
  (Checked /\ rcvd.had_tid /\ ~rcvd.tid_ok) =>
     /\ rcvd.ret = -1
     /\ rcvd.reason = "TRANSACTIONID_UNMATCHED"

\* C2 (amended): with a transactionID in the context, every accepted
\* response carries an equal transactionID; a response with a different or
\* absent one makes the check return -1, with reason TRANSACTIONID_UNMATCHED
\* unless the protection or pvno check, which come first, has failed with
\* its own reason.
C2_TransactionID ==
  (Checked /\ rcvd.had_tid /\ ~rcvd.tid_ok) =>
     /\ rcvd.ret = -1
     /\ \/ rcvd.reason = "TRANSACTIONID_UNMATCHED"
        \/ ProtectionFailed \/ PvnoFailed
     /\ (rcvd.prot = "valid" /\ rcvd.pvno_ok)
          => rcvd.reason = "TRANSACTIONID_UNMATCHED"

C2_Witness ==
  /\ Checked /\ rcvd.had_tid /\ ~rcvd.tid_ok
  /\ rcvd.reason = "TRANSACTIONID_UNMATCHED"
  /\ rcvd.ret = -1 /\ ctx.transactionID # NULL

\* the responses for which C3 lets protection be missing or invalid
C3_Tolerated ==
  \/ rcvd.type = OSSL_CMP_PKIBODY_ERROR
  \/ rcvd.type = OSSL_CMP_PKIBODY_RP
       /\ rcvd.status = OSSL_CMP_PKISTATUS_rejection
  \/ rcvd.type = OSSL_CMP_PKIBODY_PKICONF
  \/ /\ rcvd.type \in {OSSL_CMP_PKIBODY_IP, OSSL_CMP_PKIBODY_CP,
                       OSSL_CMP_PKIBODY_KUP}
     /\ rcvd.nresp = 1
     /\ rcvd.status = OSSL_CMP_PKISTATUS_rejection

\* C3: a response whose protection is missing or invalid passes the check
\* only if unprotectedErrors is set and the response is an error message, an
\* RP with status rejection, a PKIConf, or an IP/CP/KUP whose only
\* CertResponse has status rejection; otherwise the check fails.
C3_UnprotectedException ==
  (Checked /\ rcvd.prot \in {"missing", "invalid"}
     /\ ~(ctx.unprotectedErrors /\ C3_Tolerated))
    => rcvd.ret = -1

C3_Witness ==
  /\ Checked /\ rcvd.prot = "missing" /\ rcvd.ret >= 0
  /\ rcvd.type = OSSL_CMP_PKIBODY_IP /\ ctx.unprotectedErrors

\* the private key a new certificate has to fit
RequestedKey == IF ctx.newPkey # NIL THEN ctx.newPkey ELSE ctx.pkey

\* C4 as stated: for every session and every certConf callback, after a
\* successful exec_IR/CR/KUR/P10CR the public key of ctx.newClCert matches
\* newPkey if set and else the client key; no session returns success with a
\* certificate whose public key does not match.
C4_Original ==
  (pc = "ret" /\ result.ret = "cert") =>
     /\ result.cert = ctx.newClCert
     /\ X509_check_private_key(ctx.newClCert, RequestedKey)

\* C4 (amended): for every session in which no certConf callback is set or
\* the callback does not return 0 for a certificate the library has flagged
\* with incorrectData, after a successful exec_IR/CR/KUR/P10CR the public
\* key of ctx.newClCert matches newPkey if set and else the client key; a
\* callback that returns 0 overrules the check.
C4_NewCertKey ==
  (pc = "ret" /\ result.ret = "cert" /\ ctx.certConf_cb # "accept") =>
     /\ result.cert = ctx.newClCert
     /\ X509_check_private_key(ctx.newClCert, RequestedKey)

C4_Witness ==
  /\ pc = "ret" /\ result.ret = "cert"
  /\ ctx.certConf_cb = "OSSL_CMP_certConf_cb"
  /\ X509_check_private_key(result.cert, RequestedKey)

\* C5: once ctx.transactionID is set no step changes it, and every request
\* handed to the transfer callback (the initial request, each pollReq, the
\* certConf) carries it.
C5_TransactionIDKept ==
  [][ /\ ctx.transactionID # NULL => ctx'.transactionID = ctx.transactionID
      /\ req'.type # -1 => req'.transactionID = ctx'.transactionID ]_vars

C5_Witness ==
  /\ pc = "certconf" /\ ses.polls >= 1
  /\ req.type = OSSL_CMP_PKIBODY_CERTCONF
  /\ req.transactionID = ctx.transactionID /\ ctx.transactionID # NULL

\* C6: ctx.recipNonce is the senderNonce of the latest message that passed
\* the received-message check, and a request built after it carries that
\* value as its recipNonce.
C6_RecipNonceLatest ==
  /\ ctx.recipNonce = lastIn
  /\ req.type # -1 => req.recipNonce = lastIn

C6_Witness ==
  /\ pc = "poll" /\ ses.polls >= 2
  /\ lastIn = MaxOctet /\ req.recipNonce = lastIn

\* C7: after OSSL_CMP_HDR_init has built a header, ctx.last_senderNonce is
\* the senderNonce of that header, the latest one built.
C7_LastSenderNonce ==
  lastHdrNonce # NULL => ctx.last_senderNonce = lastHdrNonce

C7_Witness ==
  /\ pc = "certconf" /\ req.type = OSSL_CMP_PKIBODY_CERTCONF
  /\ lastHdrNonce # NULL /\ req.senderNonce = lastHdrNonce
  /\ ctx.last_senderNonce = req.senderNonce


(***************************************************************************)
(* Properties of the validation of signature-protected responses           *)
(***************************************************************************)
\* the response last checked was authenticated by its signature with a
\* certificate that has no valid path to the trust store of the context
AuthenticatedOffPath ==
  /\ Checked
  /\ rcvd.alg = "sig"
  /\ rcvd.prot = "valid"
  /\ rcvd.scrt # NIL
  /\ ~rcvd.pathok

\* C8 as stated: a sender certificate that does not pass path validation
\* against the trust store of the context authenticates a received message
\* only when permitTAInExtraCertsForIR is set and the body of that very
\* message is IP, never a message of another body type.
C8_Original ==
  AuthenticatedOffPath =>
    ctx.permitTAInExtraCertsForIR /\ rcvd.type = OSSL_CMP_PKIBODY_IP

\* C8 as amended: a sender certificate that does not pass path validation
\* against the trust store of the context and is not the pinned srvCert
\* authenticates a received message only when permitTAInExtraCertsForIR is
\* set, and then either the body of that very message is IP or the
\* certificate is the cached validatedSrvCert of an earlier message.
C8_OffPathSrvCert ==
  AuthenticatedOffPath /\ rcvd.via # "pinned" =>
    /\ ctx.permitTAInExtraCertsForIR
    /\ rcvd.type = OSSL_CMP_PKIBODY_IP \/ rcvd.via = "cache"

\* An IP is authenticated by way of the 3GPP exception, and the certificate
\* it grants is confirmed
C8_Witness ==
  /\ AuthenticatedOffPath
  /\ rcvd.via = "3gpp"
  /\ rcvd.type = OSSL_CMP_PKIBODY_IP
  /\ rcvd.ret = OSSL_CMP_PKIBODY_IP
  /\ ctx.validatedSrvCert = rcvd.scrt
  /\ pc = "certconf"

\* the candidate search ran for the response last checked: it was signed,
\* no certificate is pinned, the sender was not unexpected and no cached
\* certificate was acceptable
CandidateSearch ==
  /\ Checked
  /\ rcvd.alg = "sig"
  /\ ctx.srvCert = NIL
  /\ rcvd.via \in {"path", "3gpp", "none"}

\* the first element of the sequence that is in S
FirstIn(seq, S) ==
  seq[CHOOSE i \in 1..Len(seq) :
        seq[i] \in S /\ \A j \in 1..(i - 1) : seq[j] \notin S]

\* C9 as stated: in candidate search, if some acceptable candidate both
\* verifies the signature of the message and passes path validation against
\* the trust store and the untrusted pool, the message is accepted, using
\* the first such candidate in search order.
C9_Original ==
  CandidateSearch /\ rcvd.pathset \cap rcvd.sigset # {} =>
    /\ rcvd.prot = "valid"
    /\ rcvd.scrt = FirstIn(rcvd.cands, rcvd.pathset \cap rcvd.sigset)

\* C9 as amended: in candidate search, if some acceptable candidate passes
\* path validation against the trust store and the untrusted pool, the
\* first such candidate in search order is selected and cached, and the
\* message is accepted if and only if that candidate verifies its signature.
C9_FirstValidatedCandidate ==
  CandidateSearch /\ rcvd.pathset # {} =>
    /\ rcvd.scrt = FirstIn(rcvd.cands, rcvd.pathset)
    /\ rcvd.via = "path"
    /\ ctx.validatedSrvCert = rcvd.scrt
    /\ rcvd.prot = "valid" <=> rcvd.scrt \in rcvd.sigset

\* The first candidate with a valid path does not verify the signature, a
\* later one would: the response is rejected and the session fails
C9_Witness ==
  /\ CandidateSearch
  /\ rcvd.pathset \cap rcvd.sigset # {}
  /\ rcvd.scrt = FirstIn(rcvd.cands, rcvd.pathset)
  /\ rcvd.scrt \notin rcvd.sigset
  /\ rcvd.prot = "invalid"
  /\ SessionFailed

\* the response last checked was signed under a sender name other than the
\* expected one
UnexpectedSender ==
  /\ Checked
  /\ rcvd.alg = "sig"
  /\ ctx.expected_sender # NIL
  /\ rcvd.sender # ctx.expected_sender

\* C10: with an expected_sender in the context, set explicitly or taken
\* from the subject of the pinned srvCert, no signature-protected message
\* with another sender name passes protection validation: validation fails
\* with UNEXPECTED_SENDER before any certificate is tried.
C10_ExpectedSender ==
  UnexpectedSender =>
    /\ rcvd.prot = "invalid"
    /\ rcvd.first = "UNEXPECTED_SENDER"
    /\ rcvd.scrt = NIL /\ rcvd.via = ""
    /\ rcvd.ret = -1

\* A response signed by eve, whose certificate is in its extraCerts and has
\* a valid path, is rejected by a context that pins a certificate of srv
C10_Witness ==
  /\ UnexpectedSender
  /\ ctx.srvCert # NIL
  /\ ctx.expected_sender = Cert[ctx.srvCert].subject
  /\ rcvd.sender = "eve"
  /\ "E" \in Range(ctx.untrusted_certs)
  /\ rcvd.first = "UNEXPECTED_SENDER"


(***************************************************************************)
(* Properties of the KeyUsage check and of the cached server certificate   *)
(***************************************************************************)
\* the response last checked was signed and its signature was accepted
SignatureAccepted ==
  Checked /\ rcvd.alg = "sig" /\ rcvd.prot = "valid"

\* C11: unless ignore_keyusage is set, no signature-protected message is
\* accepted with a sender certificate whose KeyUsage is present and lacks
\* digitalSignature, be the certificate pinned, cached or found by the
\* candidate search; a certificate without KeyUsage extension whose key
\* verifies the signature is accepted.
C11_KeyUsage ==
  /\ (SignatureAccepted /\ ~ctx.ignore_keyusage) =>
        rcvd.scrt # NIL /\ Cert[rcvd.scrt].ku # "nods"
  /\ (Checked /\ rcvd.alg = "sig" /\ rcvd.scrt # NIL
         /\ Cert[rcvd.scrt].ku = "absent"
         /\ Cert[rcvd.scrt].key = rcvd.key) => rcvd.prot = "valid"

\* A response signed with the key of SK, whose KeyUsage lacks
\* digitalSignature, is rejected with SK taken from the cache
C11_Witness ==
  /\ Checked /\ rcvd.alg = "sig" /\ ~ctx.ignore_keyusage
  /\ rcvd.scrt = "SK" /\ rcvd.key = Cert["SK"].key
  /\ rcvd.via = "cache"
  /\ rcvd.prot = "invalid" /\ rcvd.ret = -1

\* this step puts a certificate into the cache
CacheSet ==
  /\ ctx'.validatedSrvCert # NIL
  /\ ctx'.validatedSrvCert # ctx.validatedSrvCert

\* this step checks a signed response for which the cached certificate is
\* looked at and is not acceptable
AcceptabilityFailed ==
  /\ rcvd'.type # -1 /\ rcvd'.alg = "sig"
  /\ rcvd'.via \notin {"", "pinned"}
  /\ ctx.validatedSrvCert # NIL
  /\ ~cert_acceptable(ctx.validatedSrvCert,
                      [sender |-> rcvd'.sender, senderKID |-> rcvd'.kid])

\* C12 as stated: the cached validatedSrvCert is set only as the result of
\* a successful signature validation of a received message with that
\* certificate, and it is discarded when its acceptability check fails for
\* a later message.
C12_Original ==
  [][ /\ CacheSet => /\ rcvd'.prot = "valid"
                     /\ rcvd'.scrt = ctx'.validatedSrvCert
      /\ AcceptabilityFailed =>
            ctx'.validatedSrvCert # ctx.validatedSrvCert ]_vars

\* C12 as amended: the cached validatedSrvCert is set only as the result of
\* the candidate search selecting that certificate for a received signed
\* message, by path validation against the trust store or by the 3GPP
\* exception, whether or not the signature of the message then verifies
\* with it; it is discarded when its acceptability check fails for a later
\* message, and it changes in no other step.
C12_ValidatedSrvCert ==
  [][ /\ CacheSet =>
            /\ rcvd'.alg = "sig"
            /\ rcvd'.scrt = ctx'.validatedSrvCert
            /\ \/ rcvd'.via = "path" /\ rcvd'.scrt \in rcvd'.pathset
               \/ /\ rcvd'.via = "3gpp"
                  /\ ctx.permitTAInExtraCertsForIR
                  /\ rcvd'.type = OSSL_CMP_PKIBODY_IP
      /\ AcceptabilityFailed =>
            /\ ctx'.validatedSrvCert # ctx.validatedSrvCert
            /\ ctx'.validatedSrvCert = rcvd'.scrt
            /\ rcvd'.via \in {"path", "3gpp", "none"}
      /\ ctx'.validatedSrvCert # ctx.validatedSrvCert =>
            rcvd'.via \in {"path", "3gpp", "none"} ]_vars

\* The search has cached S1, the first candidate with a valid path, for a
\* response whose signature S1 does not verify
C12_Witness ==
  /\ Checked /\ rcvd.alg = "sig" /\ rcvd.via = "path"
  /\ ctx.validatedSrvCert = rcvd.scrt /\ rcvd.scrt = "S1"
  /\ rcvd.prot = "invalid"
  /\ rcvd.scrt \notin rcvd.sigset


(***************************************************************************)
(* Properties of the handling of certificate responses                     *)
(***************************************************************************)
\* the session has raised the error e
Raised(e) == \E i \in 1..Len(result.errs) : result.errs[i] = e

\* a certificate was taken from the response last checked
CertExtracted ==
  Checked /\ rcvd.stage \in {"certreq", "poll"} /\ rcvd.crt # NIL

\* a confirmation is to be exchanged for the response last checked
ConfirmationApplies == ~ctx.disableConfirm /\ ~rcvd.ic

\* the session is blocked in the transfer of a certConf
CertConfSent ==
  pc = "certconf" /\ req.type = OSSL_CMP_PKIBODY_CERTCONF

FinalFailInfo ==
  LET pre == IF X509_check_private_key(ctx.newClCert, RequestedKey)
               THEN 0 ELSE incorrectData
  IN IF ctx.certConf_cb = NIL THEN pre
     ELSE IF ctx.certConf_cb = "accept" THEN 0
     ELSE IF ctx.certConf_cb = "reject" THEN incorrectData
     ELSE IF pre # 0 THEN pre
     ELSE IF ctx.certConf_cb_arg # {}
             /\ ~OSSL_CMP_validate_cert_path(ctx, ctx.certConf_cb_arg,
                                             ctx.newClCert)
       THEN incorrectData
     ELSE 0

StatusDispatched ==
  /\ Checked /\ rcvd.passed
  /\ rcvd.stage \in {"certreq", "poll"}
  /\ IS_ENOLLMENT(rcvd.type)
  /\ rcvd.nresp = 1
  /\ rcvd.rid = -1 \/ rcvd.crid = rcvd.rid
  /\ rcvd.crid # -1
  /\ rcvd.status # OSSL_CMP_PKISTATUS_waiting

\* C15: after a session has received a certificate response with a
\* non-waiting status, ctx.lastPKIStatus is the PKIStatus of that response,
\* be the session successful or not.
C15_LastStatus ==
  StatusDispatched => ctx.lastPKIStatus = rcvd.status

\* C16: in a KUR session a CertResponse with status keyUpdateWarning is
\* valid and its certificate is extracted; in IR, CR and P10CR sessions
\* that status is the error ENCOUNTERED_KEYUPDATEWARNING and no certificate
\* is returned.
C16_KeyUpdateWarning ==
  (StatusDispatched /\ rcvd.status = OSSL_CMP_PKISTATUS_keyUpdateWarning) =>
     IF rcvd.req_type = OSSL_CMP_PKIBODY_KUR
       THEN /\ rcvd.crt # NIL /\ ctx.newClCert = rcvd.crt
            /\ ~Raised("ENCOUNTERED_KEYUPDATEWARNING")
       ELSE /\ Raised("ENCOUNTERED_KEYUPDATEWARNING")
            /\ SessionFailed

\* the statuses with which get_cert_status takes the certificate
GrantingStatus ==
  {OSSL_CMP_PKISTATUS_accepted, OSSL_CMP_PKISTATUS_grantedWithMods,
   OSSL_CMP_PKISTATUS_revocationWarning,
   OSSL_CMP_PKISTATUS_revocationNotification,
   OSSL_CMP_PKISTATUS_keyUpdateWarning}

\* C17: a session goes on to the confirmation or returns a certificate
\* only if the status of the CertResponse it has evaluated is accepted,
\* grantedWithMods, revocationWarning or revocationNotification (or
\* keyUpdateWarning); with status rejection the session fails with
\* REQUEST_REJECTED_BY_CA, newClCert holds no certificate and no certConf is
\* sent.
C17_Rejection ==
  /\ (pc = "certconf" \/ (pc = "ret" /\ result.ret = "cert")) =>
        \/ StatusDispatched /\ rcvd.status \in GrantingStatus
        \/ rcvd.stage = "certconf"
  /\ (StatusDispatched /\ rcvd.status = OSSL_CMP_PKISTATUS_rejection) =>
        /\ SessionFailed
        /\ Raised("REQUEST_REJECTED_BY_CA")
        /\ ctx.newClCert = NIL
        /\ req = NoMsg

\* A protected response with status rejection has ended the session
C17_Witness ==
  /\ StatusDispatched /\ rcvd.status = OSSL_CMP_PKISTATUS_rejection
  /\ rcvd.prot = "valid"
  /\ Raised("REQUEST_REJECTED_BY_CA")
  /\ pc = "ret" /\ ctx.newClCert = NIL

\* the response last checked answered a pollReq and passed the
\* received-message check
PollAnswered ==
  Checked /\ rcvd.stage = "poll" /\ rcvd.ret >= 0

\* C18 as stated: while polling, the client accepts as answer to a pollReq
\* only a pollRep or a response of the original rep_type of the session; a
\* response of any other body type makes the session fail with
\* UNEXPECTED_PKIBODY, or RECEIVED_ERROR for an error body.
C18_Original ==
  PollAnswered =>
    IF rcvd.type \in {OSSL_CMP_PKIBODY_POLLREP, rcvd.rep_type}
      THEN rcvd.passed
      ELSE /\ ~rcvd.passed /\ SessionFailed
           /\ Raised(IF rcvd.type = OSSL_CMP_PKIBODY_ERROR
                       THEN "RECEIVED_ERROR" ELSE "UNEXPECTED_PKIBODY")

\* C18 as amended: while polling, the client accepts as answer to a pollReq
\* only a pollRep or an IP, CP or KUP, be it of the original rep_type of the
\* session or not; a response of any other body type makes the session fail
\* with UNEXPECTED_PKIBODY, or RECEIVED_ERROR for an error body.
C18_PollAnswer ==
  PollAnswered =>
    IF rcvd.type = OSSL_CMP_PKIBODY_POLLREP \/ IS_ENOLLMENT(rcvd.type)
      THEN rcvd.passed
      ELSE /\ ~rcvd.passed /\ SessionFailed
           /\ Raised(IF rcvd.type = OSSL_CMP_PKIBODY_ERROR
                       THEN "RECEIVED_ERROR" ELSE "UNEXPECTED_PKIBODY")

\* A PKIConf in answer to a pollReq has ended the session
C18_Witness ==
  /\ PollAnswered /\ rcvd.type = OSSL_CMP_PKIBODY_PKICONF
  /\ ~rcvd.passed /\ Raised("UNEXPECTED_PKIBODY")
  /\ pc = "ret" /\ result.ret = "null"

(***************************************************************************)
(* Properties of the total timeout                                         *)
(***************************************************************************)
\* this step hands a request to the transfer callback
RequestHandedOver ==
  /\ pc' \in {"certreq", "poll", "certconf"}
  /\ pc' # pc \/ ses'.polls # ses.polls

\* this step is do_certreq_seq from its call to the first transfer
SessionStarts == pc \in {"new", "idle"} /\ pc' \notin {"new", "idle"}

\* this step takes an answer that has the session go on with a pollReq: a
\* pollRep for the certReqId of the session, or a certificate response
\* with status waiting
AnswerAsksToPoll ==
  /\ pc \in {"certreq", "poll"}
  /\ pc' # pc \/ ses'.polls # ses.polls
  /\ rcvd'.passed
  /\ \/ rcvd'.after >= 0
     \/ /\ IS_ENOLLMENT(rcvd'.type) /\ rcvd'.nresp = 1
        /\ rcvd'.crid # ABSENT /\ (rcvd'.rid = -1 \/ rcvd'.crid = rcvd'.rid)
        /\ rcvd'.status = OSSL_CMP_PKISTATUS_waiting

\* C19: with totaltimeout > 0, end_time is set to the time of the session
\* start plus totaltimeout and kept for the session; no request of the
\* session (initial request, pollReq, certConf) is handed to the transfer
\* callback at or after end_time; and a session that at or after end_time
\* is asked to poll ends with TOTAL_TIMEOUT.
C19_TotalTimeout ==
  [][ /\ SessionStarts => ctx'.end_time = now + ctx.totaltimeout
      /\ pc \in {"certreq", "poll", "certconf"}
           => ctx'.end_time = ctx.end_time
      /\ (RequestHandedOver /\ ctx'.totaltimeout > 0)
           => now' < ctx'.end_time
      /\ (AnswerAsksToPoll /\ ctx.totaltimeout > 0 /\ now >= ctx.end_time)
           => pc' = "ret" /\ Raised("TOTAL_TIMEOUT")' ]_vars

\* this step takes a pollRep for the certReqId of the session, which asks
\* the client to come back after rcvd'.after seconds
PollRepTaken ==
  /\ pc = "poll"
  /\ pc' # pc \/ ses'.polls # ses.polls
  /\ rcvd'.stage = "poll" /\ rcvd'.passed /\ rcvd'.after >= 0

NoLongerThan(t, msgtimeout) == msgtimeout = 0 \/ (t # 0 /\ t <= msgtimeout)

\* C21: for every request handed to the transfer callback in a session with
\* a total timeout, the timeout per message in force during the call is the
\* lesser of ctx.msgtimeout, where 0 counts as infinite, and the time that
\* remains until end_time; it never exceeds the time that remains.
C21_MsgTimeout ==
  [][ (RequestHandedOver /\ ctx'.totaltimeout > 0)
        => /\ ses'.msgtimeout # 0
           /\ ses'.msgtimeout <= ctx'.end_time - now'
           /\ ses'.msgtimeout
                = IF NoLongerThan(ctx'.end_time - now', ctx'.msgtimeout)
                    THEN ctx'.end_time - now' ELSE ctx'.msgtimeout ]_vars

(***************************************************************************)
(* Properties of polling                                                   *)
(***************************************************************************)
\* this step takes a pollRep with one PollRep for the certReqId of the
\* session
PollRepDispatched ==
  /\ pc = "poll"
  /\ pc' # pc \/ ses'.polls # ses.polls
  /\ rcvd'.stage = "poll" /\ rcvd'.passed /\ rcvd'.polled

\* C22: a pollRep with a negative checkAfter makes the session fail with
\* RECEIVED_NEGATIVE_CHECKAFTER_IN_POLLREP, and no further pollReq is sent;
\* a pollRep with checkAfter = 0 is accepted, and the next pollReq is sent
\* without any wait.
C22_CheckAfter ==
  [][ /\ (PollRepDispatched /\ rcvd'.after < 0)
           => /\ pc' = "ret" /\ result'.ret = "null" /\ req' = NoMsg
              /\ Raised("RECEIVED_NEGATIVE_CHECKAFTER_IN_POLLREP")'
      /\ (PollRepDispatched /\ rcvd'.after = 0 /\ ctx.totaltimeout = 0)
           => /\ pc' = "poll" /\ now' = now
              /\ req'.type = OSSL_CMP_PKIBODY_POLLREQ
              /\ ses'.polls = ses.polls + 1
      /\ (PollRepDispatched /\ rcvd'.after >= 0)
           => ~Raised("RECEIVED_NEGATIVE_CHECKAFTER_IN_POLLREP")' ]_vars

\* A pollRep with checkAfter = -1 has ended the session
C22_Witness ==
  /\ pc = "ret" /\ result.ret = "null"
  /\ rcvd.stage = "poll" /\ rcvd.passed /\ rcvd.polled /\ rcvd.after = -1
  /\ Raised("RECEIVED_NEGATIVE_CHECKAFTER_IN_POLLREP")

(***************************************************************************)
(* Properties of the exception for unprotected negative responses          *)
(***************************************************************************)
\* the response last checked is one of the four that C23 lists: an error
\* message, an RP with status rejection, a PKIConf, or, in answer to the
\* enrollment request or to a pollReq, a certificate response of the type
\* the session awaits whose only CertResponse has status rejection
C23_Listed ==
  \/ rcvd.type = OSSL_CMP_PKIBODY_ERROR
  \/ rcvd.type = OSSL_CMP_PKIBODY_RP
       /\ rcvd.status = OSSL_CMP_PKISTATUS_rejection
  \/ rcvd.type = OSSL_CMP_PKIBODY_PKICONF
  \/ /\ IS_ENOLLMENT(rcvd.type) /\ rcvd.type = rcvd.rep_type
     /\ rcvd.stage \in {"certreq", "poll"}
     /\ rcvd.nresp = 1
     /\ rcvd.status = OSSL_CMP_PKISTATUS_rejection

\* C23: with unprotectedErrors set, each of the four listed responses is
\* let through with missing or invalid protection at every stage of a
\* session at which it arrives: in answer to the enrollment request, to a
\* pollReq, and to the certConf.
C23_UnprotectedErrors ==
  (Checked /\ ctx.unprotectedErrors /\ rcvd.prot \in {"missing", "invalid"}
     /\ rcvd.stage \in {"certreq", "poll", "certconf"} /\ C23_Listed)
    => ~ProtectionFailed

(***************************************************************************)
(* Properties of the transactionID                                         *)
(***************************************************************************)
\* an earlier session on this context has sent a request and taken a
\* response to it
EarlierSession == ctx.transactionID # NULL /\ ctx.recipNonce # NULL

\* C24: a transactionID lives for one session.  Within a session the
\* transactionID of the context does not change once it is set, and every
\* request of the session carries it; the first request of a further
\* session on the same context carries a transactionID other than that of
\* the session before.
C24_TransactionID ==
  [][ /\ (pc \in {"certreq", "poll", "certconf"}
            /\ ctx.transactionID # NULL)
           => ctx'.transactionID = ctx.transactionID
      /\ RequestHandedOver
           => /\ req'.transactionID # NULL
              /\ req'.transactionID = ctx'.transactionID
      /\ (SessionStarts /\ pc' = "certreq" /\ EarlierSession)
           => req'.transactionID # ctx.transactionID ]_vars

(***************************************************************************)
(* Properties of the protection of messages                                *)
(***************************************************************************)
\* a step in which OSSL_CMP_MSG_protect is called for the message at hand
ProtectCalled ==
  /\ pc = "built" /\ pc' \in {"built", "protected"}
  /\ result'.ret \in {"0", "1"}

\* the client certificate and the private key of the context are set and match
CertAndKeyMatch ==
  ctx.clCert # NIL /\ ctx.pkey # NIL /\ Cert[ctx.clCert].key = ctx.pkey

\* C25 as stated: protection uses PBMAC whenever a secret is set, else the
\* signature when a client certificate and a matching key are set, and fails
\* with MISSING_KEY_INPUT_FOR_CREATING_PROTECTION in every other case
C25_Original ==
  [][ (ProtectCalled /\ ~ctx.unprotectedSend)
        => IF ctx.secretValue # NIL
             THEN result'.ret = "1" /\ req'.protectionAlg = "pbm"
           ELSE IF CertAndKeyMatch
             THEN result'.ret = "1" /\ req'.protectionAlg = "sig"
           ELSE /\ result'.ret = "0"
                /\ Raised("MISSING_KEY_INPUT_FOR_CREATING_PROTECTION")' ]_vars

\* C25: with unprotected_send unset, protection uses PBMAC whenever a secret
\* is set (also if a client certificate and key are set as well), else the
\* signature when a client certificate and a matching key are set; it fails
\* with CERT_AND_KEY_DO_NOT_MATCH when a client certificate and a key are set
\* that do not match, and with MISSING_KEY_INPUT_FOR_CREATING_PROTECTION in
\* every other case
C25_Precedence ==
  [][ (ProtectCalled /\ ~ctx.unprotectedSend)
        => IF ctx.secretValue # NIL
             THEN /\ result'.ret = "1"
                  /\ req'.protectionAlg = "pbm"
                  /\ req'.protection.key = ctx.secretValue
           ELSE IF CertAndKeyMatch
             THEN /\ result'.ret = "1"
                  /\ req'.protectionAlg = "sig"
                  /\ req'.protection.key = ctx.pkey
           ELSE IF ctx.clCert # NIL /\ ctx.pkey # NIL
             THEN /\ result'.ret = "0"
                  /\ Raised("CERT_AND_KEY_DO_NOT_MATCH")'
                  /\ ~Raised("MISSING_KEY_INPUT_FOR_CREATING_PROTECTION")'
           ELSE /\ result'.ret = "0"
                /\ Raised("MISSING_KEY_INPUT_FOR_CREATING_PROTECTION")' ]_vars

\* a message protected by PBMAC in a context that has a secret and also a
\* client certificate with its key
C25_Witness ==
  /\ pc = "protected" /\ result.ret = "1"
  /\ ctx.secretValue # NIL /\ CertAndKeyMatch /\ ~ctx.unprotectedSend
  /\ req.protectionAlg = "pbm" /\ req.protection.key = ctx.secretValue

\* a step in which a request builder is called
BuilderCalled == pc = "new" /\ result'.ret \in {"msg", "null"}

\* C26: a request leaves its builder without protection only if
\* unprotected_send is set: with unprotected_send set OSSL_CMP_MSG_protect
\* returns 1 and leaves the message as it is, and the request built has
\* neither protectionAlg nor protection bits; with it unset every request
\* built (ir, pollReq, certConf, rr, genm) has protectionAlg and protection
\* bits, or the builder returns NULL
C26_Unprotected ==
  [][ /\ (ProtectCalled /\ ctx.unprotectedSend)
           => result'.ret = "1" /\ result'.errs = << >> /\ req' = req
      /\ (BuilderCalled /\ ctx.unprotectedSend /\ result'.ret = "msg")
           => /\ req'.protectionAlg = "none"
              /\ req'.protection = NoProtection
      /\ (BuilderCalled /\ ~ctx.unprotectedSend)
           => \/ result'.ret = "null" /\ req' = NoMsg
              \/ /\ result'.ret = "msg"
                 /\ req'.type \in RequestBuilders
                 /\ req'.protectionAlg \in {"pbm", "sig"}
                 /\ req'.protection # NoProtection ]_vars

\* a genm built and protected with unprotected_send unset
C26_Witness ==
  /\ pc = "protected" /\ result.ret = "msg" /\ ~ctx.unprotectedSend
  /\ req.type = OSSL_CMP_PKIBODY_GENM
  /\ req.protectionAlg = "sig" /\ req.protection # NoProtection

\* C27 as stated: whenever unprotected_send is false, exactly one of the
\* secret and the pair of client certificate and private key is set
C27_Original ==
  ~ctx.unprotectedSend
    => (ctx.secretValue # NIL) # (ctx.clCert # NIL /\ ctx.pkey # NIL)

\* C27: the setters leave both credentials free, and whenever a message is
\* protected with unprotected_send false (by OSSL_CMP_MSG_protect or within
\* a builder), at least one of the secret and the pair of client certificate
\* and matching private key is set; with neither set the protection fails
C27_Credentials ==
  [][ /\ (ProtectCalled /\ ~ctx.unprotectedSend)
           => result'.ret = (IF ctx.secretValue # NIL \/ CertAndKeyMatch
                               THEN "1" ELSE "0")
      /\ (BuilderCalled /\ ~ctx.unprotectedSend /\ result'.ret = "msg")
           => ctx.secretValue # NIL \/ CertAndKeyMatch ]_vars

\* a message protected by signature in a context that has a client
\* certificate with its key and no secret
C27_Witness ==
  /\ pc = "protected" /\ result.ret = "1" /\ ~ctx.unprotectedSend
  /\ ctx.secretValue = NIL /\ CertAndKeyMatch
  /\ req.protectionAlg = "sig" /\ req.protection.key = ctx.pkey

\* a step that leaves a message protected by signature: OSSL_CMP_MSG_protect
\* or a builder has succeeded in a context without secret
SignedBy(c) ==
  /\ ProtectCalled \/ BuilderCalled
  /\ ~ctx.unprotectedSend /\ ctx.secretValue = NIL /\ ctx.clCert = c
  /\ result'.ret \in {"1", "msg"}
  /\ req'.protectionAlg = "sig"

\* the certificates that follow the first one in the extraCerts of a message
\* signed in the context c: the chain of the client certificate, then the
\* extraCertsOut, each certificate once
FollowingCerts(c) ==
  CMP_sk_X509_add1_certs(
    CMP_build_cert_chain(c.untrusted_certs, c.clCert),
    c.extraCertsOut, FALSE, TRUE)

\* C28: every message protected by signature has the client certificate of
\* the context as the first of its extraCerts, followed by its chain without
\* self-signed certificates and the extraCertsOut of the context, without
\* duplicates, and its signature verifies with the first of its extraCerts,
\* also if the message had extraCerts before it was protected
C28_ExtraCerts ==
  [][ \A c \in ClientCerts :
        SignedBy(c)
          => /\ req'.extraCerts # << >>
             /\ req'.extraCerts[1] = c
             /\ CMP_verify_signature(ctx, req', req'.extraCerts[1])
             /\ Cardinality(Range(req'.extraCerts)) = Len(req'.extraCerts)
             /\ \E i \in 1..Len(req'.extraCerts) :
                  SubSeq(req'.extraCerts, i, Len(req'.extraCerts))
                    = FollowingCerts(ctx) ]_vars

\* the same for the messages that have no extraCerts before they are
\* protected
ExtraCertsFromEmpty ==
  [][ \A c \in ClientCerts :
        (SignedBy(c) /\ (BuilderCalled \/ req.extraCerts = << >>))
          => /\ req'.extraCerts = FollowingCerts(ctx)
             /\ req'.extraCerts[1] = c
             /\ CMP_verify_signature(ctx, req', req'.extraCerts[1])
             /\ Cardinality(Range(req'.extraCerts)) = Len(req'.extraCerts)
    ]_vars

\* C29: for every message protected by PBMAC with the secret of the context,
\* CMP_calc_protection over the header and the body of the message with that
\* secret gives exactly the protection bits of the message, so that
\* CMP_verify_PBMAC with the same secret succeeds
C29_PBMAC ==
  /\ (pc = "protected" /\ req.protectionAlg = "pbm")
       => /\ req.protection # NoProtection
          /\ CMP_calc_protection(req, ctx.secretValue, NIL) = req.protection
          /\ CMP_verify_PBMAC(req, ctx.secretValue)
  /\ (pc = "checked" /\ rcvd.alg = "pbm" /\ rcvd.changed = "")
       => rcvd.passed

\* a message protected by PBMAC, with the referenceValue as senderKID, that
\* has passed the verification with the secret
C29_Witness ==
  /\ pc = "checked" /\ rcvd.alg = "pbm" /\ rcvd.changed = "" /\ rcvd.passed
  /\ req.senderKID = ctx.referenceValue /\ ctx.referenceValue # NIL
  /\ req.protection.key = ctx.secretValue

\* the parts of a message that its protection covers, of those that are
\* changed here
Covered == {"protection", "senderNonce", "recipNonce", "pvno", "body"}

\* C30: if, after a message has been protected by PBMAC or by signature, its
\* protection bits, a nonce, the pvno or the body is changed, the
\* verification with the secret or the client certificate of the context
\* that has protected it fails
C30_Tampered ==
  (pc = "checked" /\ rcvd.alg \in {"pbm", "sig"} /\ rcvd.changed \in Covered)
    => ~rcvd.passed

\* the messages that are given to the verification as they were protected,
\* or with other extraCerts, pass it
UnchangedPasses ==
  (pc = "checked" /\ rcvd.alg \in {"pbm", "sig"}
     /\ rcvd.changed \notin Covered)
    => rcvd.passed

\* a message protected by PBMAC whose body was changed has failed the
\* verification
C30_Witness ==
  /\ pc = "checked" /\ rcvd.alg = "pbm" /\ rcvd.changed = "body"
  /\ ~rcvd.passed /\ req.protection.key = ctx.secretValue

(***************************************************************************)
(* Password-based MAC parameters (crmf_pbm.c)                              *)
(***************************************************************************)
\* The cap on the iteration count; the header that defines it is not among
\* the sources, the value is the one crmf.h of the library gives
OSSL_CRMF_PBM_MAX_ITERATION_COUNT == 100000

\* how far around the two limits the iteration counts are drawn
NearLimit == 2

\* ASN1_INTEGER_set(a, v): an ASN.1 INTEGER that holds the long v
ASN1_INTEGER_set(v) == [int64 |-> TRUE, value |-> v]

\* ASN1_INTEGER_get_int64(&r, a): fails for an INTEGER that does not fit
\* into an int64_t
ASN1_INTEGER_get_int64(a) == [ok |-> a.int64, r |-> a.value]

\* Variant of OSSL_CRMF_pbmp_new without the test against the cap
OSSL_CRMF_pbmp_new_uncapped(slen, owfnid, itercnt, macnid) ==
  IF itercnt < 100
    THEN [ret |-> "null", pbm |-> NIL, errs |-> <<"ITERATIONCOUNT_BELOW_100">>]
  ELSE [ret |-> "pbm",
        pbm |-> [salt |-> slen, owf |-> owfnid,
                 iterationCount |-> ASN1_INTEGER_set(itercnt),
                 mac |-> macnid],
        errs |-> << >>]

\* OSSL_CRMF_pbmp_new: the PBMParameter for an outbound message, NIL for
\* NULL; the salt is slen random octets, of which the length is kept
OSSL_CRMF_pbmp_new(slen, owfnid, itercnt, macnid) ==
  IF itercnt < 100
    THEN [ret |-> "null", pbm |-> NIL, errs |-> <<"ITERATIONCOUNT_BELOW_100">>]
  ELSE IF itercnt > OSSL_CRMF_PBM_MAX_ITERATION_COUNT
    THEN [ret |-> "null", pbm |-> NIL, errs |-> <<"BAD_PBM_ITERATIONCOUNT">>]
  ELSE [ret |-> "pbm",
        pbm |-> [salt |-> slen, owf |-> owfnid,
                 iterationCount |-> ASN1_INTEGER_set(itercnt),
                 mac |-> macnid],
        errs |-> << >>]

\* the one-way functions and the MAC algorithms the library knows
KnownOwf == {"sha1", "sha256"}
KnownMac == {"hmac_sha1"}

\* OSSL_CRMF_pbm_new: the MAC of msg under the key derived from sec with the
\* parameters pbmp, none of them NULL; out is the MAC, NIL when the function
\* returns 0
OSSL_CRMF_pbm_new(pbmp, msg, sec) ==
  LET iterations == ASN1_INTEGER_get_int64(pbmp.iterationCount)
  IN IF pbmp.owf \notin KnownOwf
       THEN [ret |-> 0, out |-> NIL, errs |-> <<"UNSUPPORTED_ALGORITHM">>]
     ELSE IF ~iterations.ok \/ iterations.r < 100
             \/ iterations.r > OSSL_CRMF_PBM_MAX_ITERATION_COUNT
       THEN [ret |-> 0, out |-> NIL, errs |-> <<"BAD_PBM_ITERATIONCOUNT">>]
     ELSE IF pbmp.mac \notin KnownMac
       THEN [ret |-> 0, out |-> NIL, errs |-> <<"UNSUPPORTED_ALGORITHM">>]
     ELSE [ret |-> 1,
           out |-> [key |-> sec, salt |-> pbmp.salt, owf |-> pbmp.owf,
                    iterations |-> iterations.r, mac |-> pbmp.mac,
                    data |-> msg],
           errs |-> << >>]

\* The iteration counts the two functions are applied to: those around the
\* two limits, zero and the default of CMP_CTX_init
IterationCounts ==
  {0, 500} \cup ((100 - NearLimit) .. (100 + NearLimit))
     \cup ((OSSL_CRMF_PBM_MAX_ITERATION_COUNT - NearLimit)
             .. (OSSL_CRMF_PBM_MAX_ITERATION_COUNT + NearLimit))

\* The iterationCount fields a received PBMParameter can carry: the counts
\* above, a negative one, and one beyond the range of int64_t
ReceivedCounts ==
  {ASN1_INTEGER_set(n) : n \in IterationCounts \cup {-1}}
     \cup {[int64 |-> FALSE, value |-> 0]}

\* The inputs are drawn at the start: the arguments of OSSL_CRMF_pbmp_new in
\* ses, the received PBMParameter in req, the shared secret in ctx
InitPbm ==
  /\ \E s \in 1..MaxOctet : ctx = [CMP_CTX_init EXCEPT !.secretValue = s]
  /\ pc = "new"
  /\ \E n \in IterationCounts :
       ses = [slen |-> 16, owf |-> "sha256", itercnt |-> n,
              mac |-> "hmac_sha1"]
  /\ \E a \in ReceivedCounts, owf \in {"sha256", "md0"} :
       req = [salt |-> 16, owf |-> owf, iterationCount |-> a,
              mac |-> "hmac_sha1"]
  /\ result = NoResult
  /\ rcvd = NoRcvd
  /\ lastHdrNonce = NULL
  /\ lastIn = NULL
  /\ now = 0

\* OSSL_CRMF_pbmp_new applied to the arguments drawn
PbmpNew ==
  /\ pc = "new"
  /\ \E r \in {OSSL_CRMF_pbmp_new(ses.slen, ses.owf, ses.itercnt, ses.mac)} :
       result' = [ret |-> r.ret, cert |-> r.pbm, errs |-> r.errs]
  /\ pc' = "pbmp"
  /\ UNCHANGED <<ctx, ses, req, rcvd, lastHdrNonce, lastIn, now>>

\* OSSL_CRMF_pbm_new applied to the received PBMParameter, a protected part
\* and the secret of the context
PbmNew ==
  /\ pc = "new"
  /\ \E r \in {OSSL_CRMF_pbm_new(req, MaxOctet, ctx.secretValue)} :
       result' = [ret |-> IF r.ret = 1 THEN "1" ELSE "0",
                  cert |-> r.out, errs |-> r.errs]
  /\ pc' = "pbm"
  /\ UNCHANGED <<ctx, ses, req, rcvd, lastHdrNonce, lastIn, now>>

NextPbm == PbmpNew \/ PbmNew

SpecPbm == InitPbm /\ [][NextPbm]_vars

(***************************************************************************)
(* Properties of the iteration count                                       *)
(***************************************************************************)
\* the iteration count lies between 100 and the cap, both included
CountInRange(n) == 100 <= n /\ n <= OSSL_CRMF_PBM_MAX_ITERATION_COUNT

\* C31: OSSL_CRMF_pbmp_new returns parameters exactly for the iteration
\* counts from 100 up to OSSL_CRMF_PBM_MAX_ITERATION_COUNT, and
\* OSSL_CRMF_pbm_new, given known algorithms, computes a MAC exactly for the
\* received counts in that range; every other count fails with an error
C31_IterationCount ==
  /\ pc = "pbmp" =>
       /\ result.ret = "pbm" <=> CountInRange(ses.itercnt)
       /\ result.ret = "null" <=> ~CountInRange(ses.itercnt)
       /\ result.ret = "null" => result.errs # << >>
  /\ (pc = "pbm" /\ req.owf \in KnownOwf) =>
       /\ result.ret = "1" <=> (req.iterationCount.int64
                                  /\ CountInRange(req.iterationCount.value))
       /\ result.ret = "0" => Raised("BAD_PBM_ITERATIONCOUNT")
  /\ (pc = "pbm" /\ result.ret = "1") =>
       CountInRange(req.iterationCount.value)

\* the count one above the cap has been refused for an outbound message
C31_Witness ==
  /\ pc = "pbmp" /\ ses.itercnt = OSSL_CRMF_PBM_MAX_ITERATION_COUNT + 1
  /\ result.ret = "null" /\ Raised("BAD_PBM_ITERATIONCOUNT")

\* the two limits themselves are accepted on both sides, and the counts next
\* to them refused
LimitsThemselves ==
  /\ (pc = "pbmp" /\ ses.itercnt \in {100, OSSL_CRMF_PBM_MAX_ITERATION_COUNT})
       => result.ret = "pbm"
  /\ (pc = "pbmp"
        /\ ses.itercnt \in {99, OSSL_CRMF_PBM_MAX_ITERATION_COUNT + 1})
       => result.ret = "null"
  /\ (pc = "pbm" /\ req.owf \in KnownOwf /\ req.iterationCount.int64
        /\ req.iterationCount.value \in {99, OSSL_CRMF_PBM_MAX_ITERATION_COUNT + 1})
       => result.ret = "0"

(***************************************************************************)
(* Revocation sessions: OSSL_CMP_exec_RR_ses (cmp_ses.c)                   *)
(***************************************************************************)
\* X509_get0_serialNumber of the certificates a client asks to revoke
X509_get0_serialNumber(c) == IF c = "C1" THEN 1 ELSE 2

\* OSSL_CRMF_CERTID: issuer name and serial number
CertId(issuer, serial) == [issuer |-> issuer, serialNumber |-> serial]

\* a PKIStatusInfo without statusString
PKISI(st) == [status |-> st, failInfo |-> ABSENT]

\* an optional field that is absent: revCerts or crls that are NULL
NoStack == [present |-> FALSE, elems |-> << >>]

\* an optional stack that is present
Stack(s) == [present |-> TRUE, elems |-> s]

\* RevRepContent: the status list, the optional revCerts and the optional
\* crls, of which the number is kept
RevRep(si, revCerts, crls) ==
  [type |-> OSSL_CMP_PKIBODY_RP,
   status |-> IF Len(si) >= 1 THEN si[1].status ELSE ABSENT,
   statuses |-> si, revCerts |-> revCerts, crls |-> crls] @@ BaseBody

\* a PKIStatus value that RFC 4210 does not define
UnknownPKIStatus == 7

\* The RP bodies a server may answer with to the request to revoke the
\* certificate c: each status alone with each form of revCerts, and lists
\* of no, two statuses, lists of two CRLs
RevReps(c) ==
  LET id == CertId(Cert[c].issuer, X509_get0_serialNumber(c))
      ids == { NoStack, Stack(<<id>>), Stack(<< >>), Stack(<<id, id>>),
               Stack(<<[id EXCEPT !.issuer = "XCA"]>>),
               Stack(<<[id EXCEPT !.serialNumber = @ + 1]>>) }
  IN { RevRep(<<PKISI(st)>>, r, NoStack)
         : st \in -1..UnknownPKIStatus, r \in ids }
     \cup { RevRep(si, NoStack, NoStack)
              : si \in { << >>, <<PKISI(OSSL_CMP_PKISTATUS_accepted),
                                  PKISI(OSSL_CMP_PKISTATUS_accepted)>> } }
     \cup { RevRep(<<PKISI(OSSL_CMP_PKISTATUS_accepted)>>, Stack(<<id>>), l)
              : l \in {Stack(<<"crl">>), Stack(<<"crl", "crl">>)} }

\* OSSL_CRMF_CERTTEMPLATE_fill in OSSL_CMP_rr_new: issuer and serial number
\* of the certificate to revoke, both NULL in a template filled from a CSR
RevDetails(oldCert) ==
  IF oldCert = NIL THEN [filled |-> FALSE, issuer |-> NIL, serialNumber |-> 0]
  ELSE [filled |-> TRUE, issuer |-> Cert[oldCert].issuer,
        serialNumber |-> X509_get0_serialNumber(oldCert)]

\* Variant of the evaluation of the RP that does not look at revCerts
exec_RR_rp_any_CertId(c, rr, rp, null_cmp) ==
  LET rsid == OSSL_CMP_REVREQSID + 1
      fail(c1, errs) == [cert |-> NIL, ctx |-> c1, errs |-> errs,
                        abort |-> FALSE]
      saved == save_statusInfo(c, rp.statuses[rsid])
      st == rp.statuses[rsid].status
  IN IF Len(rp.statuses) # 1
       THEN fail(c, <<"WRONG_RP_COMPONENT_COUNT">>)
     ELSE IF ~saved.ok THEN fail(saved.ctx, << >>)
     ELSE IF st = OSSL_CMP_PKISTATUS_rejection
       THEN fail(saved.ctx, <<"REQUEST_REJECTED_BY_CA">>)
     ELSE IF st \in {OSSL_CMP_PKISTATUS_waiting,
                     OSSL_CMP_PKISTATUS_keyUpdateWarning}
       THEN fail(saved.ctx, <<"UNEXPECTED_PKISTATUS">>)
     ELSE IF st \notin {OSSL_CMP_PKISTATUS_accepted,
                        OSSL_CMP_PKISTATUS_grantedWithMods,
                        OSSL_CMP_PKISTATUS_revocationWarning,
                        OSSL_CMP_PKISTATUS_revocationNotification}
       THEN fail(saved.ctx, <<"UNKNOWN_PKISTATUS">>)
     ELSE IF rp.crls.present /\ Len(rp.crls.elems) # 1
       THEN fail(saved.ctx, <<"WRONG_RP_COMPONENT_COUNT">>)
     ELSE [cert |-> saved.ctx.oldCert, ctx |-> saved.ctx, errs |-> << >>,
           abort |-> FALSE]

\* OSSL_CMP_exec_RR_ses from the RP that send_receive_check has accepted to
\* its end: [cert, ctx, errs, abort]; cert is the result, NIL for NULL.  The
\* status and the CertId looked at are those with index OSSL_CMP_REVREQSID.
\* X509_NAME_cmp with the NULL issuer of a template filled from a CSR reads
\* through the NULL pointer or reports a difference, as null_cmp has it;
\* abort tells that the process has ended there.
exec_RR_rp(c, rr, rp, null_cmp) ==
  LET rsid == OSSL_CMP_REVREQSID + 1
      fail(c1, errs) == [cert |-> NIL, ctx |-> c1, errs |-> errs,
                        abort |-> FALSE]
      saved == save_statusInfo(c, rp.statuses[rsid])
      st == rp.statuses[rsid].status
      tmpl == RevDetails(rr.body.certDetails)
      cid == rp.revCerts.elems[rsid]
  IN IF Len(rp.statuses) # 1
       THEN fail(c, <<"WRONG_RP_COMPONENT_COUNT">>)
     ELSE IF ~saved.ok THEN fail(saved.ctx, << >>)
     ELSE IF st = OSSL_CMP_PKISTATUS_rejection
       THEN fail(saved.ctx, <<"REQUEST_REJECTED_BY_CA">>)
     ELSE IF st \in {OSSL_CMP_PKISTATUS_waiting,
                     OSSL_CMP_PKISTATUS_keyUpdateWarning}
       THEN fail(saved.ctx, <<"UNEXPECTED_PKISTATUS">>)
     ELSE IF st \notin {OSSL_CMP_PKISTATUS_accepted,
                        OSSL_CMP_PKISTATUS_grantedWithMods,
                        OSSL_CMP_PKISTATUS_revocationWarning,
                        OSSL_CMP_PKISTATUS_revocationNotification}
       THEN fail(saved.ctx, <<"UNKNOWN_PKISTATUS">>)
     ELSE IF rp.revCerts.present /\ Len(rp.revCerts.elems) # 1
       THEN fail(saved.ctx, <<"WRONG_RP_COMPONENT_COUNT">>)
     ELSE IF rp.revCerts.present /\ ~tmpl.filled /\ null_cmp = "abort"
       THEN [cert |-> NIL, ctx |-> saved.ctx, errs |-> << >>,
             abort |-> TRUE]
     ELSE IF rp.revCerts.present
             /\ (tmpl.issuer # cid.issuer
                   \/ tmpl.serialNumber # cid.serialNumber)
       THEN fail(saved.ctx, <<"WRONG_CERTID_IN_RP">>)
     ELSE IF rp.crls.present /\ Len(rp.crls.elems) # 1
       THEN fail(saved.ctx, <<"WRONG_RP_COMPONENT_COUNT">>)
     ELSE [cert |-> saved.ctx.oldCert, ctx |-> saved.ctx, errs |-> << >>,
           abort |-> FALSE]

\* What an application sets before a revocation session: the credentials
\* for PBMAC protection and the certificate to revoke, or a CSR in its
\* place, or neither
RRProfiles ==
  { [oldCert |-> o, unprotectedErrors |-> u] @@ PBMCredentials
      : o \in {"C1", NIL}, u \in BOOLEAN }
  \cup { [p10CSR |-> FALSE] @@ PBMCredentials }

\* the session is over: OSSL_CMP_exec_RR_ses is at `end:` with its result
ReturnRR(c, cert, errs, abort) ==
  /\ ctx' = c
  /\ pc' = "ret"
  /\ ses' = NoSes
  /\ req' = NoMsg
  /\ result' = [ret |-> IF abort THEN "abort"
                        ELSE IF cert # NIL THEN "cert" ELSE "null",
                cert |-> cert, errs |-> errs]

\* OSSL_CMP_exec_RR_ses up to the transfer of the request
ExecRR(rand_tid, rand_nonce) ==
  /\ pc \in {"new", "idle"}
  /\ \E r \in {OSSL_CMP_rr_new([ctx EXCEPT !.lastPKIStatus = -1],
                                rand_tid, rand_nonce)} :
       /\ IF r.ok
            THEN Transfer(r, "rr",
                   [NoSes EXCEPT !.req_type = OSSL_CMP_PKIBODY_RR,
                                 !.rep_type = OSSL_CMP_PKIBODY_RP,
                                 !.rep_err = "RP_NOT_RECEIVED"],
                   OSSL_CMP_PKIBODY_RP, now, << >>)
            ELSE ReturnRR(r.ctx, NIL, r.errs, FALSE)
       /\ lastHdrNonce' = IF r.hn # NULL THEN r.hn ELSE lastHdrNonce
  /\ rcvd' = NoRcvd
  /\ UNCHANGED <<lastIn, now>>

\* The responses offered to a revocation session: the RP bodies and bodies
\* of other types under a right header and under each protection fault, and
\* the accepting RP under every header with at most two faults
RRInbound ==
  LET c == IF ctx.oldCert = NIL THEN "C1" ELSE ctx.oldCert
  IN { Sealed(h @@ b)
         : h \in {g \in Headers(ctx) : /\ Faults(ctx, g) \subseteq {"prot"}
                                       /\ g.senderNonce = 1},
           b \in RevReps(c)
                   \cup {PKIConf, [BaseBody EXCEPT !.type = OSSL_CMP_PKIBODY_ERROR]} }
     \cup
     { Sealed(h @@ RevRep(<<PKISI(OSSL_CMP_PKISTATUS_accepted)>>,
                          NoStack, NoStack))
         : h \in {g \in Headers(ctx) :
                    /\ Cardinality(Faults(ctx, g)) <= 2
                    /\ g.senderNonce \in {NULL, 1}} }

\* what X509_NAME_cmp does with a NULL name
NullNameCmp == {"abort", "differ"}

\* transfer_cb returns to send_receive_check in OSSL_CMP_exec_RR_ses; the
\* session runs on to its end.  rcvd keeps, beside what Observe tells, the
\* parts of the RP and of the request that the evaluation looks at.
RecvRP(err, m, null_cmp) ==
  /\ pc = "rr"
  /\ UNCHANGED <<lastHdrNonce, now>>
  /\ \E src \in {send_receive_check(ctx, err, m, ses.rep_type, ses.rep_err)} :
       IF err # "ok"
         THEN /\ ReturnRR(src.ctx, NIL, src.errs, FALSE)
              /\ rcvd' = NoRcvd
              /\ UNCHANGED lastIn
         ELSE /\ lastIn' = IF src.chk.ret >= 0 THEN m.senderNonce ELSE lastIn
              /\ \E obs \in {Observe(ctx, m, src)} :
                   IF ~src.ok
                     THEN /\ ReturnRR(src.ctx, NIL, src.errs, FALSE)
                          /\ rcvd' = obs
                     ELSE \E r \in {exec_RR_rp(src.ctx, req, m, null_cmp)} :
                            /\ ReturnRR(r.ctx, r.cert, r.errs, r.abort)
                            /\ rcvd' = [statuses |-> m.statuses,
                                        revCerts |-> m.revCerts,
                                        crls |-> m.crls,
                                        tmpl |-> RevDetails(req.body.certDetails),
                                        oldCert |-> ctx.oldCert] @@ obs

NextRR ==
  \/ \E p \in RRProfiles : Configure(p)
  \/ \E t \in TidDraws, n \in Octets : ExecRR(t, n)
  \/ pc = "rr" /\ \E m \in RRInbound, n \in NullNameCmp : RecvRP("ok", m, n)
  \/ \E e \in TransferErrs : RecvRP(e, NoMsg, "differ")
  \/ Free

SpecRR == Init /\ [][NextRR]_vars

(***************************************************************************)
(* Properties of revocation sessions                                       *)
(***************************************************************************)
\* OSSL_CMP_exec_RR_ses has returned after send_receive_check has accepted
\* an RP
RPEvaluated ==
  /\ pc = "ret" /\ rcvd.req_type = OSSL_CMP_PKIBODY_RR
  /\ rcvd.type = OSSL_CMP_PKIBODY_RP /\ rcvd.passed

\* the RP carries one status, and it is st
SingleStatus(st) ==
  Len(rcvd.statuses) = 1 /\ rcvd.statuses[1].status = st

\* the CertId i of revCerts names the certificate of the request
CertIdMatches(i) ==
  /\ rcvd.tmpl.filled
  /\ rcvd.revCerts.elems[i].issuer = rcvd.tmpl.issuer
  /\ rcvd.revCerts.elems[i].serialNumber = rcvd.tmpl.serialNumber

RevocationGranted ==
  {OSSL_CMP_PKISTATUS_accepted, OSSL_CMP_PKISTATUS_grantedWithMods,
   OSSL_CMP_PKISTATUS_revocationWarning,
   OSSL_CMP_PKISTATUS_revocationNotification}

\* C32: OSSL_CMP_exec_RR_ses returns the old certificate only if the RP has
\* one status, which is accepted, grantedWithMods, revocationWarning or
\* revocationNotification, and every CertId in revCerts, if present, has
\* the issuer and the serial number of the certificate of the request; it
\* returns NULL with REQUEST_REJECTED_BY_CA for the status rejection, with
\* UNEXPECTED_PKISTATUS for waiting and keyUpdateWarning, and with
\* WRONG_CERTID_IN_RP for a granting status with a CertId that differs from
\* the certificate of the request
C32_RevocationResult ==
  /\ (pc = "ret" /\ result.ret = "cert" /\ rcvd.req_type = OSSL_CMP_PKIBODY_RR)
       => /\ RPEvaluated
          /\ \E st \in RevocationGranted : SingleStatus(st)
          /\ rcvd.revCerts.present =>
               \A i \in 1..Len(rcvd.revCerts.elems) : CertIdMatches(i)
          /\ result.cert = rcvd.oldCert /\ result.cert # NIL
  /\ (RPEvaluated /\ SingleStatus(OSSL_CMP_PKISTATUS_rejection))
       => result.ret = "null" /\ Raised("REQUEST_REJECTED_BY_CA")
  /\ (RPEvaluated /\ (\/ SingleStatus(OSSL_CMP_PKISTATUS_waiting)
                      \/ SingleStatus(OSSL_CMP_PKISTATUS_keyUpdateWarning)))
       => result.ret = "null" /\ Raised("UNEXPECTED_PKISTATUS")
  /\ (RPEvaluated /\ (\E st \in RevocationGranted : SingleStatus(st))
        /\ rcvd.tmpl.filled /\ rcvd.revCerts.present
        /\ Len(rcvd.revCerts.elems) = 1 /\ ~CertIdMatches(1))
       => result.ret = "null" /\ Raised("WRONG_CERTID_IN_RP")

\* a revocation has returned the old certificate after an RP whose revCerts
\* name it
C32_Witness ==
  /\ RPEvaluated /\ result.ret = "cert" /\ result.cert = "C1"
  /\ rcvd.revCerts.present /\ CertIdMatches(1)
  /\ SingleStatus(OSSL_CMP_PKISTATUS_revocationNotification)

\* an RP that grants the revocation of another certificate has been refused
WrongCertIdRefused ==
  /\ RPEvaluated /\ result.ret = "null" /\ Raised("WRONG_CERTID_IN_RP")
  /\ SingleStatus(OSSL_CMP_PKISTATUS_accepted) /\ rcvd.tmpl.filled

\* rejection, waiting and keyUpdateWarning have each been answered as
\* claimed, also for an RP that was accepted without protection
RejectionRefused ==
  /\ RPEvaluated /\ SingleStatus(OSSL_CMP_PKISTATUS_rejection)
  /\ rcvd.alg = "none" /\ Raised("REQUEST_REJECTED_BY_CA")

\* every granting status without revCerts, or with the CertId of the
\* certificate of the request, and with at most one CRL, returns the old
\* certificate
GrantedReturnsOldCert ==
  (RPEvaluated /\ (\E st \in RevocationGranted : SingleStatus(st))
     /\ rcvd.tmpl.filled
     /\ (~rcvd.revCerts.present
           \/ (Len(rcvd.revCerts.elems) = 1 /\ CertIdMatches(1)))
     /\ (~rcvd.crls.present \/ Len(rcvd.crls.elems) = 1))
    => result.ret = "cert"

(***************************************************************************)
(* generalInfo of a header (cmp_hdr.c, cmp_lib.c)                          *)
(***************************************************************************)
\* the most items a generalInfo is given
MaxItavs == 3

\* infoType of the items pushed
ItavOIDs == {"id_it_implicitConfirm", "id_it_confirmWaitTime", "id_it_other"}

\* Variant of CMP_ITAV_stack_item_push0 that leaves out an item whose
\* infoType the stack already holds
CMP_ITAV_stack_item_push0_unique(itav_sk, itav) ==
  IF itav = NIL THEN Stack(itav_sk.elems)
  ELSE IF itav \in Range(itav_sk.elems) THEN itav_sk
  ELSE Stack(Append(itav_sk.elems, itav))

\* CMP_ITAV_stack_item_push0: the stack is created if it is NULL, and the
\* item, unless NULL, is pushed
CMP_ITAV_stack_item_push0(itav_sk, itav) ==
  IF itav = NIL THEN Stack(itav_sk.elems)
  ELSE Stack(Append(itav_sk.elems, itav))

\* OSSL_CMP_HDR_generalInfo_push0_item
OSSL_CMP_HDR_generalInfo_push0_item(hdr, itav) ==
  [hdr EXCEPT !.generalInfo = CMP_ITAV_stack_item_push0(@, itav)]

\* OSSL_CMP_HDR_generalInfo_push1_items: the copies of the items are pushed
\* one after the other
RECURSIVE OSSL_CMP_HDR_generalInfo_push1_items(_, _)
OSSL_CMP_HDR_generalInfo_push1_items(hdr, itavs) ==
  IF itavs = << >> THEN hdr
  ELSE OSSL_CMP_HDR_generalInfo_push1_items(
         OSSL_CMP_HDR_generalInfo_push0_item(hdr, Head(itavs)), Tail(itavs))

\* OSSL_CMP_HDR_set_implicitConfirm
OSSL_CMP_HDR_set_implicitConfirm(hdr) ==
  OSSL_CMP_HDR_generalInfo_push0_item(hdr, "id_it_implicitConfirm")

\* OSSL_CMP_HDR_check_implicitConfirm applied to the generalInfo of a header
HDR_check_implicitConfirm(hdr) ==
  IF \E i \in 1..Len(hdr.generalInfo.elems) :
        hdr.generalInfo.elems[i] = "id_it_implicitConfirm"
    THEN 1 ELSE 0

\* number of the items of s with infoType oid
RECURSIVE ItavCount(_, _)
ItavCount(s, oid) ==
  IF s = << >> THEN 0
  ELSE (IF Head(s) = oid THEN 1 ELSE 0) + ItavCount(Tail(s), oid)

\* A header whose generalInfo is NULL; ses counts the items with the
\* implicitConfirm OID that have been handed to it
InitHdr ==
  /\ ctx = CMP_CTX_init
  /\ pc = "hdr"
  /\ ses = [handed |-> 0]
  /\ req = [generalInfo |-> NoStack]
  /\ result = NoResult
  /\ rcvd = NoRcvd
  /\ lastHdrNonce = NULL
  /\ lastIn = NULL
  /\ now = 0

\* the header after a call that has returned 1
HdrCalled(hdr, name, handed) ==
  /\ Len(hdr.generalInfo.elems) <= MaxItavs
  /\ req' = hdr
  /\ pc' = name
  /\ ses' = [handed |-> ses.handed + handed]
  /\ result' = [NoResult EXCEPT !.ret = "1"]
  /\ UNCHANGED <<ctx, rcvd, lastHdrNonce, lastIn, now>>

GeneralInfoPush0Item(itav) ==
  HdrCalled(OSSL_CMP_HDR_generalInfo_push0_item(req, itav), "push0_item",
            IF itav = "id_it_implicitConfirm" THEN 1 ELSE 0)

GeneralInfoPush1Items(itavs) ==
  HdrCalled(OSSL_CMP_HDR_generalInfo_push1_items(req, itavs), "push1_items",
            ItavCount(itavs, "id_it_implicitConfirm"))

SetImplicitConfirm ==
  HdrCalled(OSSL_CMP_HDR_set_implicitConfirm(req), "set_implicitConfirm", 1)

CheckImplicitConfirm ==
  /\ pc' = "check_implicitConfirm"
  /\ result' = [NoResult EXCEPT
                  !.ret = IF HDR_check_implicitConfirm(req) = 1 THEN "1"
                          ELSE "0"]
  /\ UNCHANGED <<ctx, ses, req, rcvd, lastHdrNonce, lastIn, now>>

\* the stacks of items that are pushed at once
ItavStacks ==
  { << >>, <<"id_it_implicitConfirm", "id_it_other">>,
    <<"id_it_implicitConfirm", "id_it_implicitConfirm">> }

NextHdr ==
  \/ \E itav \in ItavOIDs \cup {NIL} : GeneralInfoPush0Item(itav)
  \/ \E itavs \in ItavStacks : GeneralInfoPush1Items(itavs)
  \/ SetImplicitConfirm
  \/ CheckImplicitConfirm

SpecHdr == InitHdr /\ [][NextHdr]_vars

(***************************************************************************)
(* Properties of generalInfo                                               *)
(***************************************************************************)
\* C33 as stated: generalInfo never holds more than one item with the
\* implicitConfirm OID
C33_Original ==
  ItavCount(req.generalInfo.elems, "id_it_implicitConfirm") <= 1

\* C33: generalInfo holds one item with the implicitConfirm OID for every
\* such item pushed and for every call of set_implicitConfirm; the push
\* helper appends what it is given and does not compare OIDs
C33_EveryItemKept ==
  ItavCount(req.generalInfo.elems, "id_it_implicitConfirm") = ses.handed

\* set_implicitConfirm has been called on a header that had the item, and the
\* header holds it twice
C33_Witness ==
  /\ pc = "set_implicitConfirm"
  /\ req.generalInfo.elems
       = <<"id_it_implicitConfirm", "id_it_implicitConfirm">>

\* OSSL_CMP_HDR_check_implicitConfirm returns 1 exactly for the headers that
\* hold the item at least once
CheckFindsAny ==
  pc = "check_implicitConfirm" =>
    (result.ret = "1"
       <=> ItavCount(req.generalInfo.elems, "id_it_implicitConfirm") >= 1)

(***************************************************************************)
(* Sources of the subject alternative names (cmp_ctx.c)                    *)
(***************************************************************************)
\* the most names a context is given
MaxSANs == 3

\* X509v3_get_ext_by_NID(exts, NID_subject_alt_name, -1) >= 0
X509v3_have_SAN(exts) ==
  exts.present /\ "subject_alt_name" \in Range(exts.elems)

\* CMP_CTX_reqExtensions_have_SAN
CMP_CTX_reqExtensions_have_SAN(c) == X509v3_have_SAN(c.reqExtensions)

\* CMP_CTX_set0_reqExtensions(ctx, exts): [ok, ctx, errs]; exts is NoStack
\* for NULL
CMP_CTX_set0_reqExtensions(c, exts) ==
  IF Len(c.subjectAltNames) > 0 /\ exts.present /\ X509v3_have_SAN(exts)
    THEN [ok |-> FALSE, ctx |-> c, errs |-> <<"MULTIPLE_SAN_SOURCES">>]
  ELSE [ok |-> TRUE, ctx |-> [c EXCEPT !.reqExtensions = exts],
        errs |-> << >>]

\* Variant of CMP_CTX_subjectAltName_push1 that does not look at the
\* request extensions
CMP_CTX_subjectAltName_push1_unchecked(c, name) ==
  IF name = NIL
    THEN [ok |-> FALSE, ctx |-> c, errs |-> <<"NULL_ARGUMENT">>]
  ELSE [ok |-> TRUE,
        ctx |-> [c EXCEPT !.subjectAltNames = Append(@, name)],
        errs |-> << >>]

\* CMP_CTX_subjectAltName_push1(ctx, name): [ok, ctx, errs]
CMP_CTX_subjectAltName_push1(c, name) ==
  IF name = NIL
    THEN [ok |-> FALSE, ctx |-> c, errs |-> <<"NULL_ARGUMENT">>]
  ELSE IF CMP_CTX_reqExtensions_have_SAN(c)
    THEN [ok |-> FALSE, ctx |-> c, errs |-> <<"MULTIPLE_SAN_SOURCES">>]
  ELSE [ok |-> TRUE,
        ctx |-> [c EXCEPT !.subjectAltNames = Append(@, name)],
        errs |-> << >>]

\* the request extensions an application supplies: none, and lists with and
\* without a subject alternative name extension
ReqExtensions ==
  { NoStack, Stack(<< >>), Stack(<<"key_usage">>),
    Stack(<<"subject_alt_name">>),
    Stack(<<"key_usage", "subject_alt_name">>) }

\* the names an application supplies; NIL for NULL
GeneralNames == {"dns", "ip", NIL}

\* the setter has returned; ses keeps the call and its argument
SetterCalled(r, call, arg) ==
  /\ ctx' = r.ctx
  /\ pc' = "new"
  /\ ses' = [call |-> call, arg |-> arg]
  /\ result' = [ret |-> IF r.ok THEN "1" ELSE "0", cert |-> NIL,
                errs |-> r.errs]
  /\ UNCHANGED <<req, rcvd, lastHdrNonce, lastIn, now>>

SetReqExtensions(exts) ==
  /\ pc = "new"
  /\ SetterCalled(CMP_CTX_set0_reqExtensions(ctx, exts),
                  "set0_reqExtensions", exts)

SubjectAltNamePush(name) ==
  /\ pc = "new"
  /\ Len(ctx.subjectAltNames) < MaxSANs
  /\ SetterCalled(CMP_CTX_subjectAltName_push1(ctx, name),
                  "subjectAltName_push1", name)

NextSAN ==
  \/ \E exts \in ReqExtensions : SetReqExtensions(exts)
  \/ \E name \in GeneralNames : SubjectAltNamePush(name)

SpecSAN == Init /\ [][NextSAN]_vars

(***************************************************************************)
(* Properties of the sources of the subject alternative names              *)
(***************************************************************************)
\* the context holds names and request extensions with a SAN extension
BothSANSources ==
  Len(ctx.subjectAltNames) > 0 /\ CMP_CTX_reqExtensions_have_SAN(ctx)

\* the call made by this step would give the context both sources
SecondSANSource ==
  \/ /\ ses'.call = "set0_reqExtensions"
     /\ Len(ctx.subjectAltNames) > 0 /\ X509v3_have_SAN(ses'.arg)
  \/ /\ ses'.call = "subjectAltName_push1"
     /\ ses'.arg # NIL /\ CMP_CTX_reqExtensions_have_SAN(ctx)

\* C34: no call of set0_reqExtensions or subjectAltName_push1 leaves the
\* context with both a non-empty list of names and request extensions that
\* contain a SAN extension; the call that would do so, whichever source it
\* supplies, returns 0 with MULTIPLE_SAN_SOURCES and leaves the context as
\* it was
C34_OneSANSource ==
  [][ /\ ~BothSANSources'
      /\ SecondSANSource =>
           result'.ret = "0" /\ ctx' = ctx /\ Raised("MULTIPLE_SAN_SOURCES")' ]_vars

\* a name has been refused for a context whose request extensions hold a
\* SAN extension
C34_Witness ==
  /\ result.ret = "0" /\ Raised("MULTIPLE_SAN_SOURCES")
  /\ ses.call = "subjectAltName_push1" /\ ses.arg = "dns"
  /\ CMP_CTX_reqExtensions_have_SAN(ctx) /\ ctx.subjectAltNames = << >>

\* request extensions with a SAN extension have been refused for a context
\* that holds names
ExtensionsRefused ==
  /\ result.ret = "0" /\ Raised("MULTIPLE_SAN_SOURCES")
  /\ ses.call = "set0_reqExtensions" /\ X509v3_have_SAN(ses.arg)
  /\ Len(ctx.subjectAltNames) > 0

(***************************************************************************)
(* CMP_build_cert_chain applied to lists of certificates (cmp_lib.c)       *)
(***************************************************************************)
\* the longest list of certificates the functions are given
MaxCerts == 3

\* the certificates the lists are made of: an end entity, its intermediate
\* CA and the root of it, an end entity of the root, a root of its own
ChainPool == {"C1", "I", "R", "N1", "X"}

\* the lists of at most n certificates of ChainPool
RECURSIVE CertLists(_)
CertLists(n) ==
  IF n = 0 THEN { << >> }
  ELSE CertLists(n - 1)
         \cup { Append(s, c) : s \in {t \in CertLists(n - 1) : Len(t) = n - 1},
                               c \in ChainPool }

\* The arguments are drawn at the start: the list certs and the certificate
\* cert, kept in ses
InitChain ==
  /\ ctx = CMP_CTX_init
  /\ pc = "new"
  /\ \E certs \in CertLists(MaxCerts), cert \in ChainPool \ {"X"} :
       ses = [certs |-> certs, cert |-> cert]
  /\ req = NoMsg
  /\ result = NoResult
  /\ rcvd = NoRcvd
  /\ lastHdrNonce = NULL
  /\ lastIn = NULL
  /\ now = 0

\* CMP_build_cert_chain applied to the arguments drawn; the list it returns
\* is kept in result.cert
BuildCertChain ==
  /\ pc = "new"
  /\ pc' = "chain"
  /\ result' = [ret |-> "chain",
                cert |-> CMP_build_cert_chain(ses.certs, ses.cert),
                errs |-> << >>]
  /\ UNCHANGED <<ctx, ses, req, rcvd, lastHdrNonce, lastIn, now>>

\* CMP_sk_X509_add1_certs applied to an empty stack and the list drawn
AddCerts(no_self_signed, no_duplicates) ==
  /\ pc = "new"
  /\ pc' = "added"
  /\ result' = [ret |-> "1",
                cert |-> CMP_sk_X509_add1_certs(<< >>, ses.certs,
                                                no_self_signed, no_duplicates),
                errs |-> << >>]
  /\ UNCHANGED <<ctx, ses, req, rcvd, lastHdrNonce, lastIn, now>>

NextChain ==
  \/ BuildCertChain
  \/ \E s \in BOOLEAN, d \in BOOLEAN : AddCerts(s, d)

SpecChain == InitChain /\ [][NextChain]_vars

(***************************************************************************)
(* Properties of the chain built                                           *)
(***************************************************************************)
SelfSigned(c) == X509_check_issued(c, c)

\* the list r continues after its first element, in issuing order, with
\* certificates of certs only, holds no self-signed certificate, and stops
\* only where certs holds no further issuer that is not self-signed
IssuerChain(r, certs) ==
  /\ \A i \in 2..Len(r) :
       r[i] \in Range(certs) /\ X509_check_issued(r[i], r[i - 1])
  /\ \A i \in 1..Len(r) : ~SelfSigned(r[i])
  /\ \A i \in 1..Len(r), j \in 1..Len(r) : r[i] = r[j] => i = j
  /\ Len(r) >= 1 =>
       ~\E d \in Range(certs) :
           /\ X509_check_issued(d, r[Len(r)]) /\ ~SelfSigned(d)
           /\ d \notin Range(r)

\* certs holds no issuer of c
NoIssuerAmong(certs, c) ==
  ~\E d \in Range(certs) : d # c /\ X509_check_issued(d, c)

\* C35 as stated: the list begins with the given certificate, whatever it
\* is, continues with the intermediates of certs on its issuer chain, holds
\* no self-signed certificate, and is just the certificate if certs holds no
\* issuer of it
C35_Original ==
  pc = "chain" =>
    /\ Len(result.cert) >= 1 /\ result.cert[1] = ses.cert
    /\ IssuerChain(result.cert, ses.certs)
    /\ NoIssuerAmong(ses.certs, ses.cert) => result.cert = <<ses.cert>>

\* C35: for a certificate that is not self-signed the list begins with it,
\* continues, in issuing order, with the intermediates of certs on its
\* issuer chain, holds no self-signed certificate, and is just the
\* certificate if certs holds no issuer of it; for a self-signed
\* certificate the list is empty
C35_ChainBuilt ==
  pc = "chain" =>
    IF SelfSigned(ses.cert) THEN result.cert = << >>
    ELSE /\ Len(result.cert) >= 1 /\ result.cert[1] = ses.cert
         /\ IssuerChain(result.cert, ses.certs)
         /\ NoIssuerAmong(ses.certs, ses.cert) => result.cert = <<ses.cert>>

\* the chain of the end entity has been built from a list that holds another
\* end entity, the root and the intermediate CA
C35_Witness ==
  /\ pc = "chain" /\ ses.cert = "C1" /\ ses.certs = <<"N1", "R", "I">>
  /\ result.cert = <<"C1", "I">>

\* the chain of a certificate whose issuer is missing from the list
MissingIntermediate ==
  /\ pc = "chain" /\ ses.cert = "C1" /\ ses.certs = <<"N1", "R">>
  /\ result.cert = <<"C1">>

(***************************************************************************)
(* Sessions under a total timeout with a server that answers every request *)
(***************************************************************************)
\* The context of a client under a total timeout, of TotalTimeout or of
\* MaxPolls seconds, whose timeout per message is left at 120 or set to 0
LiveProfiles ==
  { [totaltimeout |-> t, msgtimeout |-> mt] @@ PBMCredentials
      : t \in {MaxPolls, TotalTimeout}, mt \in {0, CMP_CTX_init.msgtimeout} }

\* the client waits in transfer_cb for the answer to an enrollment request
\* or to a pollReq
Awaiting == pc \in {"certreq", "poll"}

\* When the request in transfer was handed to transfer_cb: with the timeouts
\* per message of LiveProfiles, send_receive_check has set ctx->msgtimeout
\* to the time then left until end_time
RoundTripStart == ctx.end_time - ses.msgtimeout

\* A server that answers an enrollment request with the certificate or with
\* status waiting, and a pollReq with the certificate or a pollRep; under
\* the total timeout of MaxPolls seconds it answers a pollReq with status
\* waiting as well.  It confirms a certConf.
LiveBodies ==
  LET granted == CertRep(ses.rep_type,
                         <<CertResponse(OSSL_CMP_CERTREQID,
                                        OSSL_CMP_PKISTATUS_accepted, "N1")>>,
                         FALSE)
      waiting == CertRep(ses.rep_type,
                         <<CertResponse(OSSL_CMP_CERTREQID,
                                        OSSL_CMP_PKISTATUS_waiting, NIL)>>,
                         FALSE)
  IN IF pc = "certconf" THEN {PKIConf}
     ELSE IF pc = "certreq" THEN {granted, waiting}
     ELSE {granted}
          \cup { PollRep(<<[certReqId |-> OSSL_CMP_CERTREQID,
                            checkAfter |-> ca]>>) : ca \in {0, 1, TotalTimeout} }
          \cup (IF ctx.totaltimeout = MaxPolls THEN {waiting} ELSE {})

LiveInbound ==
  { Sealed(h @@ b) : h \in {g \in Headers(ctx) : /\ Faults(ctx, g) = {}
                                                 /\ g.senderNonce = 1},
                     b \in LiveBodies }

\* A session is started early enough for its deadline to lie within MaxTime
ExecLive(a, rand_tid, rand_nonce) ==
  /\ pc = "idle"
  /\ now + ctx.totaltimeout <= MaxTime
  /\ Exec(a, rand_tid, rand_nonce)

\* transfer_cb returns with the answer of the server; a message round trip
\* takes a second at least
ReceiveLive ==
  /\ Awaiting => now > RoundTripStart
  /\ \/ pc = "certreq" /\ \E m \in LiveInbound : RecvCertRep("ok", m)
     \/ pc = "poll" /\ \E m \in LiveInbound : RecvPollRep("ok", m)
     \/ pc = "certconf" /\ \E m \in LiveInbound : RecvPKIConf("ok", m)

\* transfer_cb returns without an answer when ctx->msgtimeout seconds have
\* passed
TimeoutLive ==
  /\ Awaiting /\ now >= RoundTripStart + ses.msgtimeout
  /\ \/ RecvCertRep("READ_TIMEOUT", NoMsg)
     \/ RecvPollRep("READ_TIMEOUT", NoMsg)

\* A second passes; transfer_cb does not wait longer than ctx->msgtimeout
TickLive ==
  /\ Awaiting => now < RoundTripStart + ses.msgtimeout
  /\ Tick

NextLive ==
  \/ \E p \in LiveProfiles : Configure(p)
  \/ \E a \in TimedExecArgs, t \in TidDraws, n \in Octets : ExecLive(a, t, n)
  \/ ReceiveLive
  \/ TimeoutLive
  \/ Free
  \/ TickLive

\* the server confirms a certConf
ConfirmLive ==
  pc = "certconf" /\ \E m \in LiveInbound : RecvPKIConf("ok", m)

\* Time passes, transfer_cb returns at the timeout when it has not returned
\* with an answer before, and the certConf is answered
SpecLive ==
  Init /\ [][NextLive]_vars
    /\ WF_vars(TickLive) /\ WF_vars(TimeoutLive) /\ WF_vars(ConfirmLive)

(***************************************************************************)
(* Termination under a total timeout                                       *)
(***************************************************************************)
SessionRuns == pc \in {"certreq", "poll", "certconf"}

\* a session has handed over no more pollReqs than seconds have passed
\* since it started
PollsBounded ==
  SessionRuns => ses.polls <= now - (ctx.end_time - ctx.totaltimeout)

PollRepTimedOut ==
  /\ pc = "ret" /\ result.ret = "null" /\ Raised("TOTAL_TIMEOUT")
  /\ rcvd.type = OSSL_CMP_PKIBODY_POLLREP /\ ctx.totaltimeout = TotalTimeout
  /\ rcvd.req_type = OSSL_CMP_PKIBODY_IR

\* the request in transfer was handed over when RoundTripStart tells
RoundTripStartsNow ==
  [][(pc' \in {"certreq", "poll"} /\ req' # req)
       => now' = ctx'.end_time - ses'.msgtimeout]_vars

(***************************************************************************)
(* Sessions with a server that sends caPubs                                *)
(***************************************************************************)
\* The context of a client with the shared secret that trusts root R and
\* may have the server certificate S1 pinned
CaPubsProfiles ==
  { opt @@ PBMCredentials
      : opt \in { [trusted_store |-> {"R"}],
                  [trusted_store |-> {"R"}, srvCert |-> "S1"] } }

\* A certificate response that grants N1 and carries the root X in caPubs,
\* or no caPubs; the confirmation of a certConf
CaPubsBodies ==
  IF pc = "certconf" THEN {PKIConf}
  ELSE { [CertRep(ses.rep_type,
                  <<CertResponse(OSSL_CMP_CERTREQID,
                                 OSSL_CMP_PKISTATUS_accepted, "N1")>>,
                  FALSE) EXCEPT !.caPubs = cp]
           : cp \in {<<"X">>, << >>} }

\* The responses under a MAC with at most one fault in the header, and
\* those signed by a server that sends S1, S2 and E as extraCerts
CaPubsInbound ==
  { Sealed(h @@ b) : h \in {g \in Headers(ctx) :
                              /\ Cardinality(Faults(ctx, g)) <= 1
                              /\ g.senderNonce = 1},
                     b \in CaPubsBodies }
  \cup {m \in SignedResponses(ctx, CaPubsBodies) : m.extraCerts # << >>}

\* OSSL_CMP_certrep_new puts caPubs into an IP only
CaPubsExecArgs == {a \in ExecArgs : a.req_type = OSSL_CMP_PKIBODY_IR}

NextCaPubs ==
  \/ \E p \in CaPubsProfiles : Configure(p)
  \/ \E a \in CaPubsExecArgs, t \in TidDraws, n \in Octets : Exec(a, t, n)
  \/ pc = "certreq" /\ \E m \in CaPubsInbound : RecvCertRep("ok", m)
  \/ pc = "certconf" /\ \E m \in CaPubsInbound : RecvPKIConf("ok", m)
  \/ Free

SpecCaPubs == Init /\ [][NextCaPubs]_vars

(***************************************************************************)
(* caPubs and the trust store                                              *)
(***************************************************************************)
\* the step has handled a response and changed the trust store
StoreChanged == pc # "new" /\ ctx'.trusted_store # ctx.trusted_store

\* C37: the trust store changes on a response only if the response is an
\* IP, CP, KUP or CCP with a valid MAC that has passed the whole
\* received-message check; a response that the check rejects leaves the
\* trust store as it is
C37_CaPubsOnSuccess ==
  [][StoreChanged =>
       /\ rcvd'.ret >= 0
       /\ rcvd'.alg = "pbm" /\ rcvd'.prot = "valid"
       /\ rcvd'.type \in {OSSL_CMP_PKIBODY_IP, OSSL_CMP_PKIBODY_CP,
                          OSSL_CMP_PKIBODY_KUP, OSSL_CMP_PKIBODY_CCP}]_vars

\* a response with a valid MAC that passed the check has brought X into
\* the trust store
TrustedOnSuccess ==
  /\ Checked /\ rcvd.ret >= 0 /\ rcvd.alg = "pbm"
  /\ ctx.trusted_store = {"R", "X"}

\* the trust store changes only on an IP, CP, KUP or CCP with a valid MAC
StoreChangedByMAC ==
  [][StoreChanged =>
       /\ rcvd'.alg = "pbm" /\ rcvd'.prot = "valid"
       /\ rcvd'.type \in {OSSL_CMP_PKIBODY_IP, OSSL_CMP_PKIBODY_CP,
                          OSSL_CMP_PKIBODY_KUP, OSSL_CMP_PKIBODY_CCP}]_vars

\* a rejected response has left X in the trust store
RejectedButTrusted ==
  /\ Checked /\ rcvd.ret < 0 /\ rcvd.reason = "UNEXPECTED_PVNO"
  /\ SessionFailed /\ "X" \in ctx.trusted_store

\* a signed response with caPubs has been accepted
SignedWithCaPubs ==
  /\ Checked /\ rcvd.ret >= 0 /\ rcvd.alg = "sig"
  /\ pc = "certconf" /\ ctx.caPubs = <<"X">>

(***************************************************************************)
(* Sessions of a client that has pinned the server certificate             *)
(***************************************************************************)
\* The context of a client with the shared secret and trust store R that
\* has pinned S1, issued under R, or SX, issued under X, with or without
\* the 3GPP option
PinnedProfiles ==
  { [trusted_store |-> {"R"}, srvCert |-> sc,
     permitTAInExtraCertsForIR |-> ta] @@ PBMCredentials
      : sc \in {"S1", "SX"}, ta \in BOOLEAN }

NextPinned ==
  \/ \E p \in PinnedProfiles : Configure(p)
  \/ \E a \in VerifierExecArgs, t \in TidDraws, n \in Octets : Exec(a, t, n)
  \/ pc = "certreq" /\ \E m \in SignedInbound : RecvCertRep("ok", m)
  \/ pc = "certconf" /\ \E m \in SignedInbound : RecvPKIConf("ok", m)
  \/ Free

SpecPinned == Init /\ [][NextPinned]_vars

(***************************************************************************)
(* The pinned server certificate                                           *)
(***************************************************************************)
\* a signed response has been checked by a client with a pinned srvCert
PinnedChecked == Checked /\ rcvd.alg = "sig" /\ ctx.srvCert # NIL

\* C38: with a pinned srvCert, the protection of a signed message is valid
\* only if the message was signed with the key of the pinned certificate,
\* and that certificate is the one the signature was verified with: none
\* found in extraCerts, the untrusted certificates or the trust store, none
\* cached, and none admitted by way of the 3GPP exception
C38_PinnedOnly ==
  PinnedChecked /\ rcvd.prot = "valid" =>
    /\ rcvd.key = Cert[ctx.srvCert].key
    /\ rcvd.scrt = ctx.srvCert
    /\ rcvd.via = "pinned"
    /\ ctx.validatedSrvCert = NIL

\* a response signed by SX, which has no path to R, has been accepted under
\* the pinned SX, with the 3GPP option set
C38_Witness ==
  /\ PinnedChecked /\ rcvd.prot = "valid" /\ rcvd.ret >= 0
  /\ ctx.srvCert = "SX" /\ rcvd.key = "kSX"
  /\ ctx.permitTAInExtraCertsForIR

\* a response signed by S2, which is in its extraCerts and has a path to R,
\* has been rejected under the pinned S1
OtherSignerRejected ==
  /\ PinnedChecked /\ rcvd.prot = "invalid" /\ rcvd.ret = -1
  /\ ctx.srvCert = "S1" /\ rcvd.key = "kS2" /\ "S2" \in rcvd.pathset
  /\ rcvd.scrt = "S1"

\* an IP signed by SX with the root X in its extraCerts has been rejected
\* under the pinned S1 although the 3GPP option is set
No3gppUnderPinned ==
  /\ PinnedChecked /\ rcvd.prot = "invalid" /\ rcvd.ret = -1
  /\ ctx.srvCert = "S1" /\ rcvd.key = "kSX"
  /\ ctx.permitTAInExtraCertsForIR /\ rcvd.type = OSSL_CMP_PKIBODY_IP
  /\ "X" \in Range(ctx.untrusted_certs)

(***************************************************************************)
(* The stored recipNonce and transactionID                                 *)
(***************************************************************************)
\* the step hands a response to OSSL_CMP_MSG_check_received
ResponseChecked == pc \in {"certreq", "poll", "certconf"} /\ rcvd'.type # -1

\* C39: a response for which OSSL_CMP_MSG_check_received returns -1 leaves
\* recipNonce and transactionID of the context as they are; while a session
\* waits for a response, the two change only with a response that passes
\* the check
C39_NonceKept ==
  /\ [][ResponseChecked /\ rcvd'.ret = -1 =>
          /\ ctx'.recipNonce = ctx.recipNonce
          /\ ctx'.transactionID = ctx.transactionID]_vars
  /\ [][(/\ pc \in {"certreq", "poll", "certconf"}
         /\ \/ ctx'.recipNonce # ctx.recipNonce
            \/ ctx'.transactionID # ctx.transactionID)
          => ResponseChecked /\ rcvd'.ret >= 0]_vars

\* the context has stored the senderNonce of a response that passed, and a
\* later response of the session, to the certConf, has been rejected for
\* its recipNonce
C39_Witness ==
  /\ Checked /\ rcvd.ret = -1 /\ rcvd.stage = "certconf"
  /\ rcvd.reason = "RECIPNONCE_UNMATCHED"
  /\ ctx.recipNonce # NULL /\ ctx.recipNonce = lastIn

\* a response has passed the check and its senderNonce is the recipNonce
NonceStored ==
  /\ Checked /\ rcvd.ret >= 0 /\ pc = "certconf"
  /\ ctx.recipNonce # NULL /\ ctx.recipNonce = lastIn

(***************************************************************************)
(* Sessions with a server that sends failInfo                              *)
(***************************************************************************)
\* The context of a client with the shared secret that confirms the
\* certificate or has OSSL_CMP_CTX_OPT_DISABLECONFIRM set
FailInfoProfiles ==
  { PBMCredentials, [disableConfirm |-> TRUE] @@ PBMCredentials }

\* A certificate response that grants N1, rejects the request or asks the
\* client to wait, with failInfo absent, without a bit or with the bit
\* incorrectData; a pollRep; the confirmation of a certConf
FailInfoBodies ==
  IF pc = "certconf" THEN {PKIConf}
  ELSE { CertRep(ses.rep_type,
                 <<[CertResponse(OSSL_CMP_CERTREQID, sc.st, sc.crt)
                      EXCEPT !.failInfo = fi]>>, FALSE)
           : sc \in { [st |-> OSSL_CMP_PKISTATUS_accepted, crt |-> "N1"],
                      [st |-> OSSL_CMP_PKISTATUS_rejection, crt |-> NIL],
                      [st |-> OSSL_CMP_PKISTATUS_waiting, crt |-> NIL] },
             fi \in {ABSENT, 0, incorrectData} }
       \cup (IF pc = "poll"
               THEN {PollRep(<<[certReqId |-> OSSL_CMP_CERTREQID,
                                checkAfter |-> 0]>>)}
               ELSE {})

FailInfoInbound ==
  { Sealed(h @@ b) : h \in {g \in Headers(ctx) : /\ Faults(ctx, g) = {}
                                                 /\ g.senderNonce = 1},
                     b \in FailInfoBodies }

FailInfoExecArgs == {a \in ExecArgs : a.req_type = OSSL_CMP_PKIBODY_IR}

NextFailInfo ==
  \/ \E p \in FailInfoProfiles : Configure(p)
  \/ \E a \in FailInfoExecArgs, t \in TidDraws, n \in Octets : Exec(a, t, n)
  \/ pc = "certreq" /\ \E m \in FailInfoInbound : RecvCertRep("ok", m)
  \/ pc = "poll" /\ \E m \in FailInfoInbound : RecvPollRep("ok", m)
  \/ pc = "certconf" /\ \E m \in FailInfoInbound : RecvPKIConf("ok", m)
  \/ Free

SpecFailInfo == Init /\ [][NextFailInfo]_vars

(***************************************************************************)
(* The failInfo left in the context                                        *)
(***************************************************************************)
\* the step has given the statusInfo of a certificate response to
\* save_statusInfo
StatusInfoSaved ==
  /\ pc \in {"certreq", "poll"}
  /\ rcvd'.type = ses.rep_type /\ rcvd'.passed
  /\ rcvd'.nresp = 1 /\ rcvd'.crid = ses.rid
  /\ rcvd'.status # OSSL_CMP_PKISTATUS_waiting

\* C40: when a statusInfo is saved, failInfoCode of the context becomes the
\* failInfo bits of that statusInfo, and zero if it carries no failInfo;
\* no bit of an earlier response or session stays
C40_FailInfo ==
  [][StatusInfoSaved =>
       ctx'.failInfoCode = IF rcvd'.failInfo = ABSENT THEN 0
                           ELSE rcvd'.failInfo]_vars

\* the failInfo of a statusInfo that carries one is taken over
FailInfoTaken ==
  [][StatusInfoSaved /\ rcvd'.failInfo # ABSENT =>
       ctx'.failInfoCode = rcvd'.failInfo]_vars

\* a session that has got its certificate without failInfo ends with the
\* bit of the rejection before it in the context
FailInfoRetained ==
  /\ pc = "ret" /\ result.ret = "cert" /\ Checked
  /\ rcvd.failInfo = ABSENT /\ rcvd.status = OSSL_CMP_PKISTATUS_accepted
  /\ ctx.failInfoCode = incorrectData /\ ctx.disableConfirm

\* a statusInfo without a bit has cleared the bit of an earlier one
FailInfoCleared ==
  /\ pc = "ret" /\ Checked /\ rcvd.failInfo = 0 /\ ctx.failInfoCode = 0
  /\ rcvd.status = OSSL_CMP_PKISTATUS_rejection
====
